---------------------------- MODULE Spec2Model ----------------------------
(***************************************************************************)
(* youtube-transcript-plus: the retrying transport (fetchWithRetry, sleep, *)
(* isRetryableStatus in src/src/utils.ts) and the transcript-acquisition   *)
(* pipeline around it (YoutubeTranscript.fetchTranscript and               *)
(* _fetchCaptionTracks in src/src/index.ts), as one state machine.         *)
(*                                                                         *)
(* One call is modelled from its invocation to its completion.  A state    *)
(* is a suspension point of the async code (an await): the environment     *)
(* settles the awaited promise (a transport call, a backoff timer, a body  *)
(* read, a cache operation) and the call's continuation then runs, as one  *)
(* action, up to the next await.  The cancellation signal can trigger in   *)
(* any state before the call has completed.                                *)
(***************************************************************************)
EXTENDS Integers, Sequences, FiniteSets, TLC

(* ------------------------------ bounds -------------------------------- *)

\* Largest value of the retries argument / config.retries that is explored.
MaxRetries == 3

\* Largest number of <text> elements of a transcript document.
MaxElems == 2

\* Latest value of Date.now() (in time units) a cache instance is run to.
MaxTime == 3

\* Pieces (entities and fragments of entities) a text passed to
\* decodeXmlEntities is put together from.
MaxPieces == 2

(* ------------------------- program constants -------------------------- *)

\* this.config?.retries ?? 0
DefaultRetries == 0

\* this.config?.retryDelay ?? 1000
DefaultRetryDelay == 1000

(* ------------------------------ domains ------------------------------- *)

\* An optional value (undefined or a value) is a sequence of length 0 or 1.
None == <<>>
Some(v) == <<v>>
OrElse(opt, d) == IF opt = None THEN d ELSE opt[1]

\* Status codes a transport may answer with: success, client errors, the
\* retryable statuses and both edges of the 5xx range.
Statuses == {200, 400, 429, 499, 500, 599, 600}

\* Base delays (ms) a caller passes; None leaves config.retryDelay unset.
RetryDelays == {None, Some(50)}

Stages == {"video", "player", "transcript"}

\* Raw videoId arguments: two bare identifiers, a watch URL, strings of 11
\* characters outside the alphabet, a string of 12 characters and two
\* strings of no known shape.
VideoIdInputs ==
    {"dQw4w9WgXcQ", "a_b-c_d-e_f",
     "https://www.youtube.com/watch?v=dQw4w9WgXcQ",
     "hello world", "../.././../.", "dQw4w9WgXcQ1",
     "invalid", "https://example.com"}

\* config.lang values: unset, the empty string, valid tags, a
\* header-injection-shaped string and a markup-shaped one.
LangInputs ==
    {None, Some(""), Some("en"), Some("fr"), Some("pt-BR"), Some("en;drop"),
     Some("<script>")}

(* --------------------------- pure functions --------------------------- *)

\* Returns true if the HTTP status code is retryable (429 or 5xx).
IsRetryableStatusNoUpper(status) == status = 429 \/ status >= 500
isRetryableStatus(status) == status = 429 \/ (status >= 500 /\ status <= 599)

\* Response.ok of the Fetch standard: the status is in 200..299.
ResponseOk(status) == status >= 200 /\ status <= 299

\* retryDelay * Math.pow(2, attempt)
BackoffDelayLinear(retryDelay, attempt) == retryDelay * (attempt + 1)
BackoffDelay(retryDelay, attempt) == retryDelay * (2 ^ attempt)


(* ----------------------- identifier and language --------------------- *)

\* The characters of the strings the model works on: where the code
\* matches a pattern against a string or rewrites it, the model does so
\* character by character.
Chars(s) ==
    CASE s = "" ->
           <<>>
      [] s = "en" ->
           <<"e", "n">>
      [] s = "fr" ->
           <<"f", "r">>
      [] s = "de" ->
           <<"d", "e">>
      [] s = "pt-BR" ->
           <<"p", "t", "-", "B", "R">>
      [] s = "zh-Hans" ->
           <<"z", "h", "-", "H", "a", "n", "s">>
      [] s = "en;drop" ->
           <<"e", "n", ";", "d", "r", "o", "p">>
      [] s = "<script>" ->
           <<"<", "s", "c", "r", "i", "p", "t", ">">>
      [] s = "dQw4w9WgXcQ" ->
           <<"d", "Q", "w", "4", "w", "9", "W", "g", "X", "c", "Q">>
      [] s = "a_b-c_d-e_f" ->
           <<"a", "_", "b", "-", "c", "_", "d", "-", "e", "_", "f">>
      [] s = "hello world" ->
           <<"h", "e", "l", "l", "o", " ", "w", "o", "r", "l", "d">>
      [] s = "../.././../." ->
           <<".", ".", "/", ".", ".", "/", ".", "/", ".", ".", "/",
             ".">>
      [] s = "dQw4w9WgXcQ1" ->
           <<"d", "Q", "w", "4", "w", "9", "W", "g", "X", "c", "Q",
             "1">>
      [] s = "invalid" ->
           <<"i", "n", "v", "a", "l", "i", "d">>
      [] s = "https://www.youtube.com/watch?v=dQw4w9WgXcQ" ->
           <<"h", "t", "t", "p", "s", ":", "/", "/", "w", "w", "w",
             ".", "y", "o", "u", "t", "u", "b", "e", ".",
             "c", "o", "m", "/", "w", "a", "t", "c", "h",
             "?", "v", "=", "d", "Q", "w", "4", "w", "9",
             "W", "g", "X", "c", "Q">>
      [] s = "https://example.com" ->
           <<"h", "t", "t", "p", "s", ":", "/", "/", "e", "x", "a",
             "m", "p", "l", "e", ".", "c", "o", "m">>
      [] s = "http" ->
           <<"h", "t", "t", "p">>
      [] s = "https" ->
           <<"h", "t", "t", "p", "s">>
      [] s = "http://" ->
           <<"h", "t", "t", "p", ":", "/", "/">>
      [] s = "https://" ->
           <<"h", "t", "t", "p", "s", ":", "/", "/">>
      [] s = "&fmt=" ->
           <<"&", "f", "m", "t", "=">>
      [] s = "://www.youtube.com/watch?v=" ->
           <<":", "/", "/", "w", "w", "w", ".", "y", "o", "u", "t",
             "u", "b", "e", ".", "c", "o", "m", "/", "w",
             "a", "t", "c", "h", "?", "v", "=">>
      [] s = "://www.youtube.com/youtubei/v1/player?key=" ->
           <<":", "/", "/", "w", "w", "w", ".", "y", "o", "u", "t",
             "u", "b", "e", ".", "c", "o", "m", "/", "y",
             "o", "u", "t", "u", "b", "e", "i", "/", "v",
             "1", "/", "p", "l", "a", "y", "e", "r", "?",
             "k", "e", "y", "=">>
      [] s = "KEY" ->
           <<"K", "E", "Y">>
      [] s = "https://www.youtube.com/api/timedtext?v=x&lang=de" ->
           <<"h", "t", "t", "p", "s", ":", "/", "/", "w", "w", "w",
             ".", "y", "o", "u", "t", "u", "b", "e", ".",
             "c", "o", "m", "/", "a", "p", "i", "/", "t",
             "i", "m", "e", "d", "t", "e", "x", "t", "?",
             "v", "=", "x", "&", "l", "a", "n", "g", "=",
             "d", "e">>
      [] s = "https://www.youtube.com/api/timedtext?v=x&lang=en&fmt=srv3" ->
           <<"h", "t", "t", "p", "s", ":", "/", "/", "w", "w", "w",
             ".", "y", "o", "u", "t", "u", "b", "e", ".",
             "c", "o", "m", "/", "a", "p", "i", "/", "t",
             "i", "m", "e", "d", "t", "e", "x", "t", "?",
             "v", "=", "x", "&", "l", "a", "n", "g", "=",
             "e", "n", "&", "f", "m", "t", "=", "s", "r",
             "v", "3">>
      [] s = "https://www.youtube.com/api/timedtext?v=x&fmt=srv3&lang=en" ->
           <<"h", "t", "t", "p", "s", ":", "/", "/", "w", "w", "w",
             ".", "y", "o", "u", "t", "u", "b", "e", ".",
             "c", "o", "m", "/", "a", "p", "i", "/", "t",
             "i", "m", "e", "d", "t", "e", "x", "t", "?",
             "v", "=", "x", "&", "f", "m", "t", "=", "s",
             "r", "v", "3", "&", "l", "a", "n", "g", "=",
             "e", "n">>
      [] s = "https://www.youtube.com/api/timedtext?fmt=srv3&v=x&lang=en" ->
           <<"h", "t", "t", "p", "s", ":", "/", "/", "w", "w", "w",
             ".", "y", "o", "u", "t", "u", "b", "e", ".",
             "c", "o", "m", "/", "a", "p", "i", "/", "t",
             "i", "m", "e", "d", "t", "e", "x", "t", "?",
             "f", "m", "t", "=", "s", "r", "v", "3", "&",
             "v", "=", "x", "&", "l", "a", "n", "g", "=",
             "e", "n">>
      [] s = "https://www.youtube.com/api/timedtext?v=x&fmt=srv3&lang=en&fmt=json3" ->
           <<"h", "t", "t", "p", "s", ":", "/", "/", "w", "w", "w",
             ".", "y", "o", "u", "t", "u", "b", "e", ".",
             "c", "o", "m", "/", "a", "p", "i", "/", "t",
             "i", "m", "e", "d", "t", "e", "x", "t", "?",
             "v", "=", "x", "&", "f", "m", "t", "=", "s",
             "r", "v", "3", "&", "l", "a", "n", "g", "=",
             "e", "n", "&", "f", "m", "t", "=", "j", "s",
             "o", "n", "3">>

\* [a-zA-Z] and [0-9]
Letters ==
    {"a", "b", "c", "d", "e", "f", "g", "h", "i", "j", "k", "l", "m", "n",
     "o", "p", "q", "r", "s", "t", "u", "v", "w", "x", "y", "z",
     "A", "B", "C", "D", "E", "F", "G", "H", "I", "J", "K", "L", "M", "N",
     "O", "P", "Q", "R", "S", "T", "U", "V", "W", "X", "Y", "Z"}
Digits == {"0", "1", "2", "3", "4", "5", "6", "7", "8", "9"}

\* The alphabet of RE_VIDEO_ID without its length.
MatchesVideoIdAnyLength(v) ==
    \A i \in 1..Len(Chars(v)) : Chars(v)[i] \in Letters \cup Digits \cup {"_", "-"}

\* RE_VIDEO_ID.test(videoId): exactly 11 characters of [a-zA-Z0-9_-].
MatchesVideoId(v) ==
    /\ Len(Chars(v)) = 11
    /\ \A i \in 1..11 : Chars(v)[i] \in Letters \cup Digits \cup {"_", "-"}

\* videoId.match(RE_YOUTUBE): the identifier captured from a known URL
\* shape, or None when the string has none of them.
MatchYoutubeUrl(v) ==
    IF v = "https://www.youtube.com/watch?v=dQw4w9WgXcQ"
    THEN Some("dQw4w9WgXcQ") ELSE None

\* The identifier, or None where the code throws InvalidVideoId.
retrieveVideoId(v) ==
    IF MatchesVideoId(v) THEN Some(v) ELSE MatchYoutubeUrl(v)

\* The pieces of cs between its "-" characters.
RECURSIVE Subtags(_)
Subtags(cs) ==
    LET dashes == {i \in 1..Len(cs) : cs[i] = "-"}
    IN  IF dashes = {} THEN <<cs>>
        ELSE LET d == CHOOSE i \in dashes : \A k \in dashes : i <= k
             IN  <<SubSeq(cs, 1, d - 1)>> \o Subtags(SubSeq(cs, d + 1, Len(cs)))

\* RE_BCP47_LANG.test(lang), /^[a-zA-Z]{2,3}(-[a-zA-Z0-9]{2,8})*$/:
\* validateLang throws InvalidLang when it fails.
validateLang(lang) ==
    LET parts == Subtags(Chars(lang))
    IN  /\ Len(parts[1]) \in 2..3
        /\ \A k \in 1..Len(parts[1]) : parts[1][k] \in Letters
        /\ \A i \in 2..Len(parts) :
              /\ Len(parts[i]) \in 2..8
              /\ \A k \in 1..Len(parts[i]) : parts[i][k] \in Letters \cup Digits

\* JavaScript truthiness of an optional string: set and not empty.
Truthy(opt) == opt # None /\ opt[1] # ""

\* `yt:transcript+details:${identifier}:${lang ?? ''}` or
\* `yt:transcript:${identifier}:${lang ?? ''}`: the concatenated string.
CacheKeyNoFlag(id, lang, includeDetails) ==
    "yt:transcript:" \o id \o ":" \o OrElse(lang, "")

CacheKey(id, lang, includeDetails) ==
    (IF includeDetails THEN "yt:transcript+details:" ELSE "yt:transcript:")
        \o id \o ":" \o OrElse(lang, "")

(* ----------------------- values of the program ------------------------ *)

\* A JavaScript value a call can resolve with.  shape "response" is a
\* Response (fetchWithRetry), "segments" a TranscriptSegment[], "result" a
\* {videoDetails, segments} pair, "languages" a CaptionTrackInfo[]; "null",
\* "number" and "object" are what JSON.parse yields for the texts null, 42
\* and {}.
JsValue(shape, status, segments, details) ==
    [shape |-> shape, status |-> status, segments |-> segments,
     details |-> details, languages |-> <<>>]

NoValue == JsValue("undefined", 0, <<>>, None)

\* A settled promise: what was awaited, and its resolution or rejection.
Resolved(of, status) == [of |-> of, ok |-> TRUE, error |-> "", status |-> status]
Rejected(of, error) == [of |-> of, ok |-> FALSE, error |-> error, status |-> 0]
NothingSettled == [of |-> "none", ok |-> TRUE, error |-> "", status |-> 0]

\* What an error object carries besides its kind: videoId, lang and
\* availableLangs, where its class has them.
Carries(videoId, lang, availableLangs) ==
    [videoId |-> videoId, lang |-> lang, availableLangs |-> availableLangs]
NoDetail == Carries(None, None, <<>>)
WithVideoId(id) == Carries(Some(id), None, <<>>)

\* How a call ended (or that it has not ended yet).
Pending ==
    [kind |-> "pending", error |-> "", value |-> NoValue, carries |-> NoDetail]
FailureWith(error, detail) ==
    [kind |-> "error", error |-> error, value |-> NoValue, carries |-> detail]
Failure(error) == FailureWith(error, NoDetail)
Success(value) ==
    [kind |-> "value", error |-> "", value |-> value, carries |-> NoDetail]

\* The failure a triggered signal produces: signal.reason.
AbortFailure == Failure("AbortError")

(* --------------------- transcript document, stage 5 ------------------- *)

\* The six entities of XML_ENTITIES, as characters, with their meaning.
XML_ENTITIES ==
    {[src |-> <<"&", "a", "m", "p", ";">>, dst |-> "&"],
     [src |-> <<"&", "l", "t", ";">>, dst |-> "<"],
     [src |-> <<"&", "g", "t", ";">>, dst |-> ">"],
     [src |-> <<"&", "q", "u", "o", "t", ";">>, dst |-> "\""],
     [src |-> <<"&", "#", "3", "9", ";">>, dst |-> "'"],
     [src |-> <<"&", "a", "p", "o", "s", ";">>, dst |-> "'"]}

\* Whether the characters of word stand in text from position i on.
OccursAt(word, text, i) ==
    /\ i + Len(word) - 1 <= Len(text)
    /\ \A k \in 1..Len(word) : text[i + k - 1] = word[k]

\* text.replace(RE_XML_ENTITY, ...): one left-to-right pass in which every
\* entity found is replaced and the scan goes on after it.
RECURSIVE DecodeFrom(_, _)
DecodeFrom(text, i) ==
    IF i > Len(text) THEN <<>>
    ELSE LET found == {e \in XML_ENTITIES : OccursAt(e.src, text, i)}
         IN  IF found = {} THEN <<text[i]>> \o DecodeFrom(text, i + 1)
             ELSE LET e == CHOOSE x \in found : TRUE
                  IN  <<e.dst>> \o DecodeFrom(text, i + Len(e.src))

\* Two passes instead of one.
decodeXmlEntitiesTwice(text) == DecodeFrom(DecodeFrom(text, 1), 1)

\* decodeXmlEntities(text)
decodeXmlEntities(text) == DecodeFrom(text, 1)

\* Texts decodeXmlEntities is called with on its own: every concatenation
\* of at most MaxPieces entities, fragments of entities and plain characters.
RECURSIVE Flatten(_)
Flatten(pieces) ==
    IF pieces = <<>> THEN <<>> ELSE Head(pieces) \o Flatten(Tail(pieces))

Texts ==
    LET Pieces == {e.src : e \in XML_ENTITIES} \cup
                  {<<"l", "t", ";">>, <<"#", "3", "9", ";">>, <<"&">>,
                   <<"a">>, <<"<">>}
    IN  {Flatten(ps) : ps \in UNION {[1..n -> Pieces] : n \in 0..MaxPieces}}

\* parseFloat of the start and dur attributes, in tenths of a second.
parseFloat(s) ==
    CASE s = "0" -> 0 [] s = "1.5" -> 15 [] s = "2.0" -> 20 [] OTHER -> 0

\* The <text start=".." dur="..">..</text> elements a document can hold.
Elements ==
    {[start |-> "0", dur |-> "1.5", body |-> <<"H", "i">>],
     [start |-> "1.5", dur |-> "2.0",
      body |-> <<"A", "&", "a", "m", "p", ";", "B">>]}

\* The matches of RE_XML_TRANSCRIPT in a fetched document, in order of
\* appearance: every sequence of at most MaxElems elements.
Documents ==
    UNION {[1..n -> Elements] : n \in 0..MaxElems}

\* The same with the matches taken last to first.
SegmentsLastFirst(document, lang, track) ==
    [i \in 1..Len(document) |->
        [text |-> decodeXmlEntities(document[Len(document) + 1 - i].body),
         duration |-> parseFloat(document[Len(document) + 1 - i].dur),
         offset |-> parseFloat(document[Len(document) + 1 - i].start),
         lang |-> OrElse(lang, track.languageCode)]]

\* results.map(m => ({text, duration, offset, lang}))
Segments(document, lang, track) ==
    [i \in 1..Len(document) |->
        [text |-> decodeXmlEntities(document[i].body),
         duration |-> parseFloat(document[i].dur),
         offset |-> parseFloat(document[i].start),
         lang |-> OrElse(lang, track.languageCode)]]

(* ------------------------ watch page, stage 1 ------------------------- *)

\* A watch-page body: whether it holds the bot-challenge marker, and which
\* of the two INNERTUBE_API_KEY patterns (if any) it matches.
Pages == [marker : BOOLEAN, key : {"none", "plain", "escaped"}]
NoPage == [marker |-> FALSE, key |-> "none"]

(* --------------------- player response, stage 2 ----------------------- *)

\* A caption track: its languageCode, its baseUrl ?? url, its kind ('asr'
\* on an auto-generated track) and its name?.simpleText.
Track(code, url) ==
    [languageCode |-> code, url |-> url, kind |-> None, name |-> None]
NoTrack == Track("", None)

\* captionTracks of a renderer: undefined, not an array, or an array.
Tracks(kind, list) == [kind |-> kind, list |-> list]
NoTracks == Tracks("undefined", <<>>)

TrackLists ==
    {<<>>,
     <<Track("en", Some("https://www.youtube.com/api/timedtext?v=x&fmt=srv3&lang=en"))>>,
     <<Track("en", None)>>,
     <<[Track("de", Some("https://www.youtube.com/api/timedtext?fmt=srv3&v=x&lang=en"))
           EXCEPT !.kind = Some("asr"), !.name = Some("German (auto-generated)")],
       Track("en", Some("https://www.youtube.com/api/timedtext?v=x&fmt=srv3&lang=en")),
       Track("", Some("https://www.youtube.com/api/timedtext?v=x&lang=en&fmt=srv3")),
       Track("en", Some("https://www.youtube.com/api/timedtext?v=x&lang=de"))>>}

CaptionTracks ==
    {NoTracks, Tracks("object", <<>>)} \cup
    {Tracks("array", l) : l \in TrackLists}

\* A parsed player response.  captions is "undefined", "empty" (an object
\* without a playerCaptionsTracklistRenderer) or "renderer" (with one, whose
\* captionTracks is capTracks); top is the top-level
\* playerCaptionsTracklistRenderer, present (with one English track as its
\* topTracks) or not; status is playabilityStatus.status;
\* videoDetails.videoId is optional.
PlayerJsons ==
    {j \in [captions : {"undefined", "empty", "renderer"},
            capTracks : CaptionTracks,
            top : BOOLEAN,
            topTracks : {NoTracks,
                         Tracks("array", <<Track("en", Some("https://www.youtube.com/api/timedtext?v=x&fmt=srv3&lang=en"))>>)},
            status : {"OK", "ERROR"},
            videoDetails : {None, Some("dQw4w9WgXcQ")}] :
        /\ (j.captions = "renderer" \/ j.capTracks = NoTracks)
        /\ (j.top <=> j.topTracks # NoTracks)}

NoPlayerJson ==
    [captions |-> "undefined", capTracks |-> NoTracks, top |-> FALSE,
     topTracks |-> NoTracks, status |-> "ERROR", videoDetails |-> None]

\* playerJson.captions?.playerCaptionsTracklistRenderer ??
\* playerJson.playerCaptionsTracklistRenderer, then ?.captionTracks.
\* hasList tells whether a tracklist object was found at all.
Tracklist(j) ==
    IF j.captions = "renderer" THEN [hasList |-> TRUE, tracks |-> j.capTracks]
    ELSE IF j.top THEN [hasList |-> TRUE, tracks |-> j.topTracks]
    ELSE [hasList |-> FALSE, tracks |-> NoTracks]

\* The error _fetchCaptionTracks throws for a parsed player response, or
\* "" when it returns the tracks.
ClassifyPlayer(j) ==
    IF j.captions = "undefined" \/ ~Tracklist(j).hasList
    THEN IF j.status = "OK" THEN "Disabled" ELSE "NotAvailable"
    ELSE IF Tracklist(j).tracks.kind # "array" \/ Tracklist(j).tracks.list = <<>>
         THEN "Disabled"
         ELSE ""

\* tracks.map(t => t.languageCode).filter(Boolean)
AvailableLangs(tracks) ==
    SelectSeq([i \in 1..Len(tracks) |-> tracks[i].languageCode],
              LAMBDA code : code # "")

\* tracks.map(track => ({languageCode, languageName, isAutoGenerated}))
LanguagesNoneGenerated(tracks) ==
    [i \in 1..Len(tracks) |->
        [languageCode |-> tracks[i].languageCode,
         languageName |-> OrElse(tracks[i].name, tracks[i].languageCode),
         isAutoGenerated |-> FALSE]]

Languages(tracks) ==
    [i \in 1..Len(tracks) |->
        [languageCode |-> tracks[i].languageCode,
         languageName |-> OrElse(tracks[i].name, tracks[i].languageCode),
         isAutoGenerated |-> tracks[i].kind = Some("asr")]]

\* The first track of the list, whatever the language asked for.
SelectTrackIgnoringLang(tracks, lang) == Some(tracks[1])

\* lang ? tracks.find(t => t.languageCode === lang) : tracks[0], as an
\* optional track.
SelectTrack(tracks, lang) ==
    IF Truthy(lang)
    THEN LET hits == {i \in 1..Len(tracks) : tracks[i].languageCode = lang[1]}
         IN  IF hits = {} THEN None
             ELSE Some(tracks[CHOOSE i \in hits : \A k \in hits : i <= k])
    ELSE Some(tracks[1])

(* ------------------------------ the cache ----------------------------- *)

\* Strings a cache may hold under a key: a stored segment array, a stored
\* {videoDetails, segments} pair, text that is no JSON, and JSON texts of
\* other shapes.
CachedSegments ==
    <<[text |-> <<"c">>, duration |-> 10, offset |-> 0, lang |-> "en"]>>

CachedStrings ==
    {"", "[{\"text\":\"c\",\"duration\":1,\"offset\":0,\"lang\":\"en\"}]",
     "{\"videoDetails\":{\"videoId\":\"dQw4w9WgXcQ\"},\"segments\":[{\"text\":\"c\",\"duration\":1,\"offset\":0,\"lang\":\"en\"}]}",
     "not valid json{{{", "null", "42", "{}"}

\* JSON.parse(text): ok is FALSE where it throws a SyntaxError.
JSONParse(text) ==
    CASE text = "[{\"text\":\"c\",\"duration\":1,\"offset\":0,\"lang\":\"en\"}]" ->
            [ok |-> TRUE, value |-> JsValue("segments", 0, CachedSegments, None)]
      [] text = "{\"videoDetails\":{\"videoId\":\"dQw4w9WgXcQ\"},\"segments\":[{\"text\":\"c\",\"duration\":1,\"offset\":0,\"lang\":\"en\"}]}" ->
            [ok |-> TRUE,
             value |-> JsValue("result", 0, CachedSegments, Some("dQw4w9WgXcQ"))]
      [] text = "null" -> [ok |-> TRUE, value |-> JsValue("null", 0, <<>>, None)]
      [] text = "42" -> [ok |-> TRUE, value |-> JsValue("number", 0, <<>>, None)]
      [] text = "{}" -> [ok |-> TRUE, value |-> JsValue("object", 0, <<>>, None)]
      [] OTHER -> [ok |-> FALSE, value |-> NoValue]

(* -------------------- InMemoryCache and FsCache ----------------------- *)

CacheKinds == {"InMemoryCache", "FsCache"}

\* The characters sanitizeKey keeps: [a-zA-Z0-9_-].
SafeChars ==
    {"a", "b", "c", "d", "e", "f", "g", "h", "i", "j", "k", "l", "m", "n",
     "o", "p", "q", "r", "s", "t", "u", "v", "w", "x", "y", "z",
     "A", "B", "C", "D", "E", "F", "G", "H", "I", "J", "K", "L", "M", "N",
     "O", "P", "Q", "R", "S", "T", "U", "V", "W", "X", "Y", "Z",
     "0", "1", "2", "3", "4", "5", "6", "7", "8", "9", "_", "-"}

\* key.replace(/[^a-zA-Z0-9_-]/g, '_'), on the characters of the key.
sanitizeKey(key) ==
    [i \in 1..Len(key) |-> IF key[i] \in SafeChars THEN key[i] ELSE "_"]

\* Keys (as their characters), values and ttl arguments the clients of a
\* cache instance use, and the defaultTTL an instance is constructed with.
CacheKeys == {<<"a", ":", "b">>, <<"a", "_", "b">>}
CacheValues == {"v1", "v2"}
TTLs == {None, Some(2)}
DefaultTTLs == {1, 3}

\* A stored entry: { value, expires }.
Entry(value, expires) == [value |-> value, expires |-> expires]

\* The Map keys of an InMemoryCache and the file names of an FsCache.
EntryNames == CacheKeys \cup {sanitizeKey(k) : k \in CacheKeys}
EmptyStore == [n \in EntryNames |-> None]

\* What a get resolved with: a value (hit) or null.  overtaken tells that a
\* set completed while the get was under way.
Hit(key, e, at) ==
    [op |-> "get", key |-> key, hit |-> TRUE, value |-> e.value,
     expires |-> e.expires, at |-> at, overtaken |-> FALSE]
Miss(key, at) ==
    [op |-> "get", key |-> key, hit |-> FALSE, value |-> "", expires |-> 0,
     at |-> at, overtaken |-> FALSE]
NoReturn ==
    [op |-> "none", key |-> <<>>, hit |-> FALSE, value |-> "", expires |-> 0,
     at |-> 0, overtaken |-> FALSE]

\* An FsCache.get suspended at `await fs.unlink(filePath)`.
Unlinking(key, overtaken) == [key |-> key, overtaken |-> overtaken]

\* The arguments of the last completed set of a key, and when it ran.
Written(value, ttl, at) == [value |-> value, ttl |-> ttl, at |-> at]
NothingWritten == [k \in CacheKeys |-> None]

(* ------------------------------- state -------------------------------- *)

VARIABLES
    entry,      \* the exported function that was called
    videoId,    \* its videoId argument
    cfg,        \* its TranscriptConfig / its retries, retryDelay, signal
    identifier, \* the identifier resolved from the videoId argument
    pc,         \* the await the call is suspended at
    stage,      \* the network stage whose fetchWithRetry is running
    attempt,    \* fetchWithRetry's loop variable
    calls,      \* fetchFn calls made by the running fetchWithRetry
    spent,      \* fetchFn calls made by the fetchWithRetry calls before it
    request,    \* the transport called last and the FetchParams it was given
    waits,      \* backoff timers started by the running fetchWithRetry
    outcome,    \* the result or failure of the call
    settled,    \* the promise that settled last
    aborted,    \* signal.aborted
    abortedAt,  \* what the call was awaiting when the signal triggered
    cached,     \* what cache.get resolved with
    page,       \* the watch-page body
    playerJson, \* the parsed player response
    selected,   \* the selected caption track
    doc,        \* the transcript document
    result,     \* the result built by stage 5
    cacheLog,   \* the cache operations issued, in order
    defaultTTL, \* this.defaultTTL of a cache instance
    now,        \* Date.now()
    store,      \* the Map of an InMemoryCache / the files of an FsCache
    inflight,   \* the FsCache.get that awaits fs.unlink, if any
    returned,   \* what the last get resolved with, until the next set
    written,    \* per key, the last completed set
    text,       \* the argument of a decodeXmlEntities call of its own
    decoded     \* what decodeXmlEntities returned for it, and for that

\* Written by the retry loop and by every return and throw.
control == <<pc, stage, attempt, calls, spent, request, waits, outcome>>

\* Written when a promise settles.
payload == <<cached, page, playerJson, doc>>

\* The state of the cancellation signal.
signalState == <<aborted, abortedAt>>

\* The state of an InMemoryCache or FsCache instance and of its clients.
\* A fetchWithRetry or fetchTranscript call does not touch it: the cache a
\* call is configured with is any CacheStrategy.
cacheObject == <<defaultTTL, now, store, inflight, returned, written>>

\* A decodeXmlEntities call of its own and what is done with its result.
decoding == <<text, decoded>>

\* Fixed by the caller.
arguments == <<entry, videoId, cfg, cacheObject, decoding>>

\* Fixed once the call has resolved its arguments.
fixed == <<entry, videoId, cfg, identifier, cacheObject, decoding>>

\* The state of a fetchWithRetry or fetchTranscript call, which the
\* operations of a cache instance do not touch.
call == <<videoId, cfg, identifier, pc, stage, attempt, calls, spent, request,
          waits, outcome,
          settled, aborted, abortedAt, cached, page, playerJson, selected,
          doc, result, cacheLog, decoding>>

vars == <<entry, videoId, cfg, identifier, pc, stage, attempt, calls,
          spent, request, waits, outcome,
          settled, aborted, abortedAt, cached, page, playerJson, selected, doc, result,
          cacheLog, defaultTTL, now, store, inflight, returned, written, text,
          decoded>>

Retries == OrElse(cfg.retries, DefaultRetries)
RetryDelay == OrElse(cfg.retryDelay, DefaultRetryDelay)

\* Whether the transport of a stage is caller-supplied: a videoFetch,
\* playerFetch or transcriptFetch hook, or fetchWithRetry's fetchFn itself.
UsesHook(st) == st = "op" \/ st \in cfg.hooks

\* The function a stage's fetchFn calls: this.config.videoFetch,
\* playerFetch or transcriptFetch when configured, defaultFetch otherwise.
Transport(st) ==
    IF st = "op" THEN "fetchFn"
    ELSE IF st \in cfg.hooks THEN st \o "Fetch" ELSE "defaultFetch"

\* A FetchParams object; userAgent is this.config?.userAgent ??
\* DEFAULT_USER_AGENT and signal is this.config?.signal.
FetchParams(url, method, lang, headers, body) ==
    [url |-> url, method |-> method, lang |-> lang,
     userAgent |-> "DEFAULT_USER_AGENT", headers |-> headers, body |-> body,
     signal |-> cfg.signal]
\* The Accept-Language header defaultFetch builds from a request
\* description, `...(lang && { 'Accept-Language': lang })`: none for a
\* missing or empty lang.
AcceptLanguage(params) == IF Truthy(params.lang) THEN params.lang ELSE None

NoParams == [FetchParams(<<>>, None, None, None, None) EXCEPT !.signal = FALSE]
NoRequest == [via |-> "none", params |-> NoParams]

\* The lang _fetchCaptionTracks is called with: config.lang by
\* fetchTranscript, none by listLanguages.
TracksLang == IF entry = "fetchTranscript" THEN cfg.lang ELSE None

\* watchFetchParams and playerFetchParams of _fetchCaptionTracks; the body
\* of the player request is the JSON text of the ANDROID client context
\* with videoId: identifier.
watchFetchParams(id) ==
    FetchParams(Chars(IF cfg.disableHttps THEN "http" ELSE "https")
                    \o Chars("://www.youtube.com/watch?v=") \o Chars(id),
                None, TracksLang, None, None)
playerFetchParams ==
    FetchParams(Chars(IF cfg.disableHttps THEN "http" ELSE "https")
                    \o Chars("://www.youtube.com/youtubei/v1/player?key=")
                    \o Chars("KEY"),
                Some("POST"), TracksLang,
                Some("Content-Type: application/json"), Some(identifier))

\* transcriptURL.replace(/&fmt=[^&]+/, ''): the first "&fmt=" that at least
\* one character other than "&" follows is removed with all such characters
\* after it.  ValueEnd is where [^&]+ stops, StripFrom looks for the first
\* match from position i on.
RECURSIVE ValueEnd(_, _)
ValueEnd(url, j) ==
    IF j < Len(url) /\ url[j + 1] # "&" THEN ValueEnd(url, j + 1) ELSE j

RECURSIVE StripFrom(_, _)
StripFrom(url, i) ==
    IF i + 5 > Len(url) THEN url
    ELSE IF OccursAt(<<"&", "f", "m", "t", "=">>, url, i) /\ url[i + 5] # "&"
    THEN SubSeq(url, 1, i - 1) \o SubSeq(url, ValueEnd(url, i + 5) + 1, Len(url))
    ELSE StripFrom(url, i + 1)

StripFmt(url) == StripFrom(url, 1)

\* transcriptFetchParams of fetchTranscript for the selected track: fmt
\* stripped from its baseUrl ?? url, and with disableHttps a leading
\* "https://" replaced by "http://".
transcriptFetchParams(track) ==
    LET stripped == StripFmt(Chars(track.url[1]))
    IN  FetchParams(IF cfg.disableHttps /\ OccursAt(Chars("https://"), stripped, 1)
                    THEN Chars("http://") \o SubSeq(stripped, 9, Len(stripped))
                    ELSE stripped,
                    None, cfg.lang, None, None)


(* ------------------------------- Init --------------------------------- *)

\* fetchWithRetry(fetchFn, retries, retryDelay, signal?) called directly.
RetryArguments ==
    [retries : {Some(n) : n \in 0..MaxRetries},
     retryDelay : {Some(50), Some(1000)},
     signal : BOOLEAN,
     lang : {None}, videoDetails : {FALSE}, cache : {FALSE}, hooks : {{}},
     disableHttps : {FALSE}]

\* new YoutubeTranscript(config).fetchTranscript(videoId): every language
\* without retries, no language, "en" or "fr" with one retry, and no
\* language and no video details with more.
TranscriptConfigs ==
    {c \in [retries : {None} \cup {Some(n) : n \in 0..MaxRetries},
            retryDelay : RetryDelays,
            signal : BOOLEAN,
            lang : LangInputs,
            videoDetails : BOOLEAN,
            cache : BOOLEAN,
            hooks : {{}, Stages},
            disableHttps : {FALSE}] :
        /\ c.retries \in {None, Some(0)}
              \/ c.lang \in {None, Some("en"), Some("fr")}
        /\ c.retries \in {None, Some(0), Some(1)}
              \/ (c.lang = None /\ ~c.videoDetails)}

\* Further configurations, with one hook only and with disableHttps, which
\* the remaining videoId arguments and listLanguages are called with.
OtherConfigs ==
    [retries : {None, Some(1)},
     retryDelay : {None},
     signal : {FALSE},
     lang : {None, Some("en")},
     videoDetails : {FALSE},
     cache : BOOLEAN,
     hooks : {{}, {"player"}, Stages},
     disableHttps : BOOLEAN]

\* The <<videoId, config>> pairs fetchTranscript is called with: the second
\* identifier and the URL come with configurations without retries, hooks
\* and disableHttps only.
TranscriptCalls ==
    ((VideoIdInputs \ {"a_b-c_d-e_f",
                       "https://www.youtube.com/watch?v=dQw4w9WgXcQ"})
        \X (TranscriptConfigs \cup OtherConfigs))
    \cup (VideoIdInputs
            \X {c \in OtherConfigs :
                    c.retries = None /\ c.hooks = {} /\ ~c.disableHttps})

Init ==
    /\ \/ entry = "fetchWithRetry" /\ videoId = "" /\ cfg \in RetryArguments
       \/ /\ entry = "fetchTranscript"
          /\ \E c \in TranscriptCalls : videoId = c[1] /\ cfg = c[2]
       \/ /\ entry = "listLanguages"
          /\ \E c \in VideoIdInputs \X OtherConfigs :
                videoId = c[1] /\ cfg = c[2]
    /\ identifier = ""
    /\ pc = "start"
    /\ stage = "none"
    /\ attempt = 0
    /\ calls = 0
    /\ spent = 0
    /\ request = NoRequest
    /\ waits = <<>>
    /\ outcome = Pending
    /\ settled = NothingSettled
    /\ aborted \in {FALSE} \cup (IF cfg.signal THEN {TRUE} ELSE {})
    /\ abortedAt = IF aborted THEN "before" ELSE "never"
    /\ cached = None
    /\ page = NoPage
    /\ playerJson = NoPlayerJson
    /\ selected = NoTrack
    /\ doc = <<>>
    /\ result = NoValue
    /\ cacheLog = <<>>
    /\ defaultTTL = 0
    /\ now = 0
    /\ store = EmptyStore
    /\ inflight = None
    /\ returned = NoReturn
    /\ written = NothingWritten
    /\ text = <<>>
    /\ decoded = <<>>

(* --------------------- returning and throwing ------------------------- *)

\* The call rejects with error: nothing in fetchWithRetry, in
\* _fetchCaptionTracks or in fetchTranscript catches it.
Throw(error) ==
    /\ pc' = "done"
    /\ outcome' = Failure(error)
    /\ UNCHANGED <<stage, attempt, calls, spent, request, waits>>

\* The call rejects with one of the library's errors that carry fields.
ThrowWith(error, detail) ==
    /\ pc' = "done"
    /\ outcome' = FailureWith(error, detail)
    /\ UNCHANGED <<stage, attempt, calls, spent, request, waits>>

\* The call resolves with value.
Return(value) ==
    /\ pc' = "done"
    /\ outcome' = Success(value)
    /\ UNCHANGED <<stage, attempt, calls, spent, request, waits>>

\* The call suspends at an await.
Await(label) ==
    /\ pc' = label
    /\ UNCHANGED <<stage, attempt, calls, spent, request, waits, outcome>>

\* The call's result when stage 5 has built one: the segments, or the
\* {videoDetails, segments} pair when config.videoDetails === true.
BuildResult(segments) ==
    IF cfg.videoDetails
    THEN JsValue("result", 0, segments,
                 Some(OrElse(playerJson.videoDetails, identifier)))
    ELSE JsValue("segments", 0, segments, None)

(* --------------------------- fetchWithRetry --------------------------- *)

\* The head of the for loop for attempt att of the fetchWithRetry of stage
\* st: the loop condition, signal?.throwIfAborted(), then fetchFn() is
\* called and awaited.  att = 0 is the invocation of fetchWithRetry.
RetryLoopNoAbortCheck(st, att, params) ==
    /\ stage' = st
    /\ attempt' = att
    /\ waits' = IF att = 0 THEN <<>> ELSE waits
    /\ spent' = IF att = 0 THEN spent + calls ELSE spent
    /\ IF att > Retries
       THEN /\ pc' = "done"
            /\ outcome' = Failure("Unexpected")
            /\ calls' = IF att = 0 THEN 0 ELSE calls
            /\ request' = request
       ELSE /\ pc' = "fetching"
            /\ outcome' = outcome
            /\ calls' = IF att = 0 THEN 1 ELSE calls + 1
            /\ request' = [via |-> Transport(st), params |-> params]

\* The same with the hook of a stage called on the first attempt only.
RetryLoopHookOnce(st, att, params) ==
    /\ stage' = st
    /\ attempt' = att
    /\ waits' = IF att = 0 THEN <<>> ELSE waits
    /\ spent' = IF att = 0 THEN spent + calls ELSE spent
    /\ IF att > Retries
       THEN /\ pc' = "done"
            /\ outcome' = Failure("Unexpected")
            /\ calls' = IF att = 0 THEN 0 ELSE calls
            /\ request' = request
       ELSE IF cfg.signal /\ aborted
       THEN /\ pc' = "done"
            /\ outcome' = AbortFailure
            /\ calls' = IF att = 0 THEN 0 ELSE calls
            /\ request' = request
       ELSE /\ pc' = "fetching"
            /\ outcome' = outcome
            /\ calls' = IF att = 0 THEN 1 ELSE calls + 1
            /\ request' = [via |-> IF att = 0 THEN Transport(st)
                                     ELSE "defaultFetch",
                             params |-> params]

\* The head of the loop as the code has it.
RetryLoop(st, att, params) ==
    /\ stage' = st
    /\ attempt' = att
    /\ waits' = IF att = 0 THEN <<>> ELSE waits
    /\ spent' = IF att = 0 THEN spent + calls ELSE spent
    /\ IF att > Retries
       THEN /\ pc' = "done"
            /\ outcome' = Failure("Unexpected")
            /\ calls' = IF att = 0 THEN 0 ELSE calls
            /\ request' = request
       ELSE IF cfg.signal /\ aborted
       THEN /\ pc' = "done"
            /\ outcome' = AbortFailure
            /\ calls' = IF att = 0 THEN 0 ELSE calls
            /\ request' = request
       ELSE /\ pc' = "fetching"
            /\ outcome' = outcome
            /\ calls' = IF att = 0 THEN 1 ELSE calls + 1
            /\ request' = [via |-> Transport(st), params |-> params]

\* fetchWithRetry(fetchFn, retries, retryDelay, signal) is called.
CallFetchWithRetry ==
    /\ pc = "start"
    /\ entry = "fetchWithRetry"
    /\ RetryLoop("op", 0, NoParams)
    /\ UNCHANGED <<fixed, settled, signalState, payload, selected, result,
                   cacheLog>>

\* The transport call resolves with a response.  The default transport was
\* given the signal and does not resolve once it has triggered; a hook may.
FetchResolve ==
    /\ pc = "fetching"
    /\ UsesHook(stage) \/ ~aborted
    /\ \E status \in Statuses : settled' = Resolved("fetch", status)
    /\ pc' = "fetched"
    /\ UNCHANGED <<fixed, stage, attempt, calls, spent, request, waits,
                   outcome, signalState,
                   payload, selected, result, cacheLog>>

\* The errors an awaited transport promise can reject with: an error of
\* its own (a network failure, a hook's exception) or, once the signal has
\* triggered, the signal's reason, which is the only rejection left to the
\* default transport then.
Rejections(st) ==
    IF aborted
    THEN IF UsesHook(st) THEN {"TransportError", "AbortError"}
         ELSE {"AbortError"}
    ELSE {"TransportError"}

\* The transport call rejects.
FetchReject ==
    /\ pc = "fetching"
    /\ \E error \in Rejections(stage) : settled' = Rejected("fetch", error)
    /\ pc' = "fetched"
    /\ UNCHANGED <<fixed, stage, attempt, calls, spent, request, waits,
                   outcome, signalState,
                   payload, selected, result, cacheLog>>


\* The same with every non-success transcript response mapped alike.
StageReturnNo429(status) ==
    CASE stage = "op" ->
            Return(JsValue("response", status, <<>>, None))
      [] stage \in {"video", "player"} ->
            IF ~ResponseOk(status)
            THEN ThrowWith("VideoUnavailable", WithVideoId(identifier))
            ELSE Await("reading")
      [] stage = "transcript" ->
            IF ~ResponseOk(status)
            THEN ThrowWith("NotAvailable", WithVideoId(identifier))
            ELSE Await("reading")

\* What the caller of fetchWithRetry does with the response it returns, up
\* to its next await: fetchWithRetry's own caller gets the response;
\* _fetchCaptionTracks and fetchTranscript test response.ok and read the
\* body.
StageReturn(status) ==
    CASE stage = "op" ->
            Return(JsValue("response", status, <<>>, None))
      [] stage \in {"video", "player"} ->
            IF ~ResponseOk(status)
            THEN ThrowWith("VideoUnavailable", WithVideoId(identifier))
            ELSE Await("reading")
      [] stage = "transcript" ->
            IF ~ResponseOk(status)
            THEN IF status = 429 THEN Throw("TooManyRequests")
                 ELSE ThrowWith("NotAvailable", WithVideoId(identifier))
            ELSE Await("reading")

\* sleep(delay, signal) is called and awaited: it rejects at once when the
\* signal has triggered, and starts the timer otherwise.
Sleep(delay) ==
    IF cfg.signal /\ aborted
    THEN Throw("AbortError") /\ settled' = Rejected("sleep", "AbortError")
    ELSE /\ pc' = "sleeping"
         /\ waits' = Append(waits, delay)
         /\ settled' = settled
         /\ UNCHANGED <<stage, attempt, calls, spent, request, outcome>>

\* fetchWithRetry goes on after `await fetchFn()`.
AfterFetchNoLastAttempt ==
    /\ pc = "fetched"
    /\ IF ~settled.ok
       THEN Throw(settled.error) /\ settled' = settled
       ELSE IF ~isRetryableStatus(settled.status)
       THEN StageReturn(settled.status) /\ settled' = settled
       ELSE Sleep(BackoffDelay(RetryDelay, attempt))
    /\ UNCHANGED <<fixed, signalState, payload, selected, result, cacheLog>>

\* The same with a rejected operation retried like a retryable status.
AfterFetchRetriesRejection ==
    /\ pc = "fetched"
    /\ IF (~settled.ok \/ isRetryableStatus(settled.status)) /\ attempt # Retries
       THEN Sleep(BackoffDelay(RetryDelay, attempt))
       ELSE IF ~settled.ok
       THEN Throw(settled.error) /\ settled' = settled
       ELSE StageReturn(settled.status) /\ settled' = settled
    /\ UNCHANGED <<fixed, signalState, payload, selected, result, cacheLog>>

\* The same with the last attempt recognised by `attempt > retries`.
AfterFetchPastLast ==
    /\ pc = "fetched"
    /\ IF ~settled.ok
       THEN Throw(settled.error) /\ settled' = settled
       ELSE IF ~isRetryableStatus(settled.status) \/ attempt > Retries
       THEN StageReturn(settled.status) /\ settled' = settled
       ELSE Sleep(BackoffDelay(RetryDelay, attempt))
    /\ UNCHANGED <<fixed, signalState, payload, selected, result, cacheLog>>

\* The same with the backoff index running on from the earlier stages.
AfterFetchIndexRunsOn ==
    /\ pc = "fetched"
    /\ IF ~settled.ok
       THEN Throw(settled.error) /\ settled' = settled
       ELSE IF ~isRetryableStatus(settled.status) \/ attempt = Retries
       THEN StageReturn(settled.status) /\ settled' = settled
       ELSE Sleep(BackoffDelay(RetryDelay, attempt + spent))
    /\ UNCHANGED <<fixed, signalState, payload, selected, result, cacheLog>>

AfterFetch ==
    /\ pc = "fetched"
    /\ IF ~settled.ok
       THEN Throw(settled.error) /\ settled' = settled
       ELSE IF ~isRetryableStatus(settled.status) \/ attempt = Retries
       THEN StageReturn(settled.status) /\ settled' = settled
       ELSE Sleep(BackoffDelay(RetryDelay, attempt))
    /\ UNCHANGED <<fixed, signalState, payload, selected, result, cacheLog>>

\* The backoff timer fires: setTimeout(resolve, ms).
TimerFire ==
    /\ pc = "sleeping"
    /\ pc' = "slept"
    /\ settled' = Resolved("sleep", 0)
    /\ UNCHANGED <<fixed, stage, attempt, calls, spent, request, waits,
                   outcome, signalState,
                   payload, selected, result, cacheLog>>

\* The signal triggers before the call has completed.  During a backoff
\* wait sleep's abort listener clears the timer and rejects with
\* signal.reason.
AbortNoListener ==
    /\ cfg.signal
    /\ ~aborted
    /\ pc \notin {"start", "done"}
    /\ aborted' = TRUE
    /\ abortedAt' = CASE pc = "fetching" -> "transport"
                      [] pc = "sleeping" -> "wait"
                      [] pc \in {"cacheGet", "cacheGot", "cacheSet",
                                 "cacheSetSettled"} -> "cache"
                      [] OTHER -> "other"
    /\ UNCHANGED <<fixed, pc, stage, attempt, calls, spent, request, waits,
                   outcome, settled,
                   payload, selected, result, cacheLog>>

\* The same with a listener that clears the timer and rejects nothing.
AbortClearsTimerOnly ==
    /\ cfg.signal
    /\ ~aborted
    /\ pc \notin {"start", "done"}
    /\ aborted' = TRUE
    /\ abortedAt' = CASE pc = "fetching" -> "transport"
                      [] pc = "sleeping" -> "wait"
                      [] pc \in {"cacheGet", "cacheGot", "cacheSet",
                                 "cacheSetSettled"} -> "cache"
                      [] OTHER -> "other"
    /\ pc' = IF pc = "sleeping" THEN "cleared" ELSE pc
    /\ UNCHANGED <<fixed, stage, attempt, calls, spent, request, waits,
                   outcome, settled,
                   payload, selected, result, cacheLog>>

Abort ==
    /\ cfg.signal
    /\ ~aborted
    /\ pc \notin {"start", "done"}
    /\ aborted' = TRUE
    /\ abortedAt' = CASE pc = "fetching" -> "transport"
                      [] pc = "sleeping" -> "wait"
                      [] pc \in {"cacheGet", "cacheGot", "cacheSet",
                                 "cacheSetSettled"} -> "cache"
                      [] OTHER -> "other"
    /\ IF pc = "sleeping"
       THEN pc' = "slept" /\ settled' = Rejected("sleep", "AbortError")
       ELSE pc' = pc /\ settled' = settled
    /\ UNCHANGED <<fixed, stage, attempt, calls, spent, request, waits,
                   outcome, payload,
                   selected, result, cacheLog>>

\* fetchWithRetry goes on after `await sleep(delay, signal)`: the next
\* iteration of the loop, or the rejection of sleep thrown on.
AfterSleep ==
    /\ pc = "slept"
    /\ IF settled.ok THEN RetryLoop(stage, attempt + 1, request.params)
       ELSE Throw(settled.error)
    /\ UNCHANGED <<fixed, settled, signalState, payload, selected, result,
                   cacheLog>>

(* --------------------------- fetchTranscript -------------------------- *)

\* fetchTranscript(videoId) is called: retrieveVideoId, validateLang, the
\* cache key, then the cache lookup or, without a cache, stage 1.
CallFetchTranscript ==
    /\ pc = "start"
    /\ entry = "fetchTranscript"
    /\ IF retrieveVideoId(videoId) = None
       THEN /\ Throw("InvalidVideoId")
            /\ UNCHANGED <<identifier, cacheLog>>
       ELSE /\ identifier' = retrieveVideoId(videoId)[1]
            /\ IF Truthy(cfg.lang) /\ ~validateLang(cfg.lang[1])
               THEN ThrowWith("InvalidLang", Carries(None, cfg.lang, <<>>))
                    /\ cacheLog' = cacheLog
               ELSE IF cfg.cache
               THEN /\ Await("cacheGet")
                    /\ cacheLog' = Append(cacheLog,
                         [op |-> "get",
                          key |-> CacheKey(retrieveVideoId(videoId)[1],
                                           cfg.lang, cfg.videoDetails)])
               ELSE /\ RetryLoop("video", 0,
                         watchFetchParams(retrieveVideoId(videoId)[1]))
                    /\ cacheLog' = cacheLog
    /\ UNCHANGED <<arguments, settled, signalState, payload, selected, result>>

\* listLanguages(videoId) is called: retrieveVideoId, then
\* _fetchCaptionTracks(identifier), which starts stage 1.
CallListLanguages ==
    /\ pc = "start"
    /\ entry = "listLanguages"
    /\ IF retrieveVideoId(videoId) = None
       THEN Throw("InvalidVideoId") /\ identifier' = identifier
       ELSE /\ identifier' = retrieveVideoId(videoId)[1]
            /\ RetryLoop("video", 0,
                         watchFetchParams(retrieveVideoId(videoId)[1]))
    /\ UNCHANGED <<arguments, settled, signalState, payload, selected, result,
                   cacheLog>>

\* cache.get(cacheKey) resolves with a string or with null.
CacheGetResolve ==
    /\ pc = "cacheGet"
    /\ \E s \in {None} \cup {Some(t) : t \in CachedStrings} : cached' = s
    /\ settled' = Resolved("cacheGet", 0)
    /\ pc' = "cacheGot"
    /\ UNCHANGED <<fixed, stage, attempt, calls, spent, request, waits,
                   outcome, signalState,
                   page, playerJson, doc, selected, result, cacheLog>>

\* cache.get(cacheKey) rejects.
CacheGetReject ==
    /\ pc = "cacheGet"
    /\ settled' = Rejected("cacheGet", "CacheError")
    /\ pc' = "cacheGot"
    /\ UNCHANGED <<fixed, stage, attempt, calls, spent, request, waits,
                   outcome, signalState,
                   payload, selected, result, cacheLog>>

\* fetchTranscript goes on after `await cache.get(cacheKey)`, which stands
\* outside the try block: only JSON.parse is guarded.
\* On a miss the local `cached` is not read again and is dropped.
AfterCacheGetNoReturn ==
    /\ pc = "cacheGot"
    /\ IF ~settled.ok THEN Throw(settled.error) /\ cached' = cached
       ELSE RetryLoop("video", 0, watchFetchParams(identifier))
            /\ cached' = None
    /\ UNCHANGED <<fixed, settled, signalState, page, playerJson, doc,
                   selected, result, cacheLog>>

AfterCacheGet ==
    /\ pc = "cacheGot"
    /\ IF ~settled.ok THEN Throw(settled.error) /\ cached' = cached
       ELSE IF Truthy(cached) /\ JSONParse(cached[1]).ok
       THEN Return(JSONParse(cached[1]).value) /\ cached' = cached
       ELSE RetryLoop("video", 0, watchFetchParams(identifier))
            /\ cached' = None
    /\ UNCHANGED <<fixed, settled, signalState, page, playerJson, doc, selected,
                   result, cacheLog>>

\* A body read (response.text(), response.json()) resolves.  The default
\* transport's body is bound to the signal and does not resolve once the
\* signal has triggered.
VideoBodyResolve ==
    /\ pc = "reading" /\ stage = "video"
    /\ UsesHook(stage) \/ ~aborted
    /\ \E p \in Pages : page' = p
    /\ settled' = Resolved("text", 0)
    /\ pc' = "read"
    /\ UNCHANGED <<fixed, stage, attempt, calls, spent, request, waits,
                   outcome, signalState,
                   cached, playerJson, doc, selected, result, cacheLog>>

PlayerBodyResolve ==
    /\ pc = "reading" /\ stage = "player"
    /\ UsesHook(stage) \/ ~aborted
    /\ \E j \in PlayerJsons : playerJson' = j
    /\ settled' = Resolved("json", 0)
    /\ pc' = "read"
    /\ UNCHANGED <<fixed, stage, attempt, calls, spent, request, waits,
                   outcome, signalState,
                   cached, page, doc, selected, result, cacheLog>>

TranscriptBodyResolve ==
    /\ pc = "reading" /\ stage = "transcript"
    /\ UsesHook(stage) \/ ~aborted
    /\ \E d \in Documents : doc' = d
    /\ settled' = Resolved("text", 0)
    /\ pc' = "read"
    /\ UNCHANGED <<fixed, stage, attempt, calls, spent, request, waits,
                   outcome, signalState,
                   cached, page, playerJson, selected, result, cacheLog>>

\* A body read rejects: like the transport call, or (response.json(), on a
\* body that is no JSON) with a SyntaxError.
BodyReject ==
    /\ pc = "reading"
    /\ \E error \in Rejections(stage) \cup
                    (IF stage = "player" /\ (UsesHook(stage) \/ ~aborted)
                     THEN {"SyntaxError"} ELSE {}) :
          settled' = Rejected("body", error)
    /\ pc' = "read"
    /\ UNCHANGED <<fixed, stage, attempt, calls, spent, request, waits,
                   outcome, signalState,
                   payload, selected, result, cacheLog>>

\* The same with the API key looked for before the bot-challenge marker.
AfterVideoBodyKeyFirst ==
    /\ pc = "read" /\ stage = "video"
    /\ IF ~settled.ok THEN Throw(settled.error) /\ page' = page
       ELSE IF page.key # "none" THEN RetryLoop("player", 0, playerFetchParams) /\ page' = NoPage
       ELSE IF page.marker THEN Throw("TooManyRequests") /\ page' = page
       ELSE ThrowWith("NotAvailable", WithVideoId(identifier)) /\ page' = page
    /\ UNCHANGED <<fixed, settled, signalState, cached, playerJson, doc, selected,
                   result, cacheLog>>

\* The same with the transcript request made next, without stage 2.
AfterVideoBodySkipsPlayer ==
    /\ pc = "read" /\ stage = "video"
    /\ IF ~settled.ok THEN Throw(settled.error) /\ page' = page
       ELSE IF page.marker THEN Throw("TooManyRequests") /\ page' = page
       ELSE IF page.key = "none"
       THEN ThrowWith("NotAvailable", WithVideoId(identifier)) /\ page' = page
       ELSE RetryLoop("transcript", 0, playerFetchParams) /\ page' = NoPage
    /\ UNCHANGED <<fixed, settled, signalState, cached, playerJson, doc, selected,
                   result, cacheLog>>

\* The same with stage 1 run again when the page has no API key.
AfterVideoBodyRunsAgain ==
    /\ pc = "read" /\ stage = "video"
    /\ IF ~settled.ok THEN Throw(settled.error) /\ page' = page
       ELSE IF page.marker THEN Throw("TooManyRequests") /\ page' = page
       ELSE IF page.key = "none"
       THEN RetryLoop("video", 0, watchFetchParams(identifier)) /\ page' = page
       ELSE RetryLoop("player", 0, playerFetchParams) /\ page' = NoPage
    /\ UNCHANGED <<fixed, settled, signalState, cached, playerJson, doc, selected,
                   result, cacheLog>>

\* _fetchCaptionTracks goes on after `await videoPageResponse.text()`: the
\* bot-challenge marker, the API key, then stage 2 (the page body is not
\* read again once the key is in the player request).
AfterVideoBody ==
    /\ pc = "read" /\ stage = "video"
    /\ IF ~settled.ok THEN Throw(settled.error) /\ page' = page
       ELSE IF page.marker THEN Throw("TooManyRequests") /\ page' = page
       ELSE IF page.key = "none"
       THEN ThrowWith("NotAvailable", WithVideoId(identifier)) /\ page' = page
       ELSE RetryLoop("player", 0, playerFetchParams) /\ page' = NoPage
    /\ UNCHANGED <<fixed, settled, signalState, cached, playerJson, doc, selected,
                   result, cacheLog>>

\* What is still read of the player response once the track is selected:
\* playerJson.videoDetails, by _extractVideoDetails, when config.videoDetails
\* is set.
Remaining(j) ==
    [NoPlayerJson EXCEPT
        !.videoDetails = IF cfg.videoDetails THEN j.videoDetails ELSE None]

\* The same with a NotAvailable that carries no identifier for a track
\* without URL.
AfterPlayerBodyNoIdentifier ==
    /\ pc = "read" /\ stage = "player"
    /\ IF ~settled.ok
       THEN Throw(settled.error) /\ UNCHANGED <<selected, playerJson>>
       ELSE IF ClassifyPlayer(playerJson) # ""
       THEN ThrowWith(ClassifyPlayer(playerJson), WithVideoId(identifier))
            /\ UNCHANGED <<selected, playerJson>>
       ELSE IF entry = "listLanguages"
       THEN /\ Return([JsValue("languages", 0, <<>>, None) EXCEPT
                          !.languages =
                              Languages(Tracklist(playerJson).tracks.list)])
            /\ UNCHANGED <<selected, playerJson>>
       ELSE LET tracks == Tracklist(playerJson).tracks.list
                track == SelectTrack(tracks, cfg.lang)
            IN  IF track = None
                THEN ThrowWith("NotAvailableLanguage",
                               Carries(Some(identifier), cfg.lang,
                                       AvailableLangs(tracks)))
                     /\ UNCHANGED <<selected, playerJson>>
                ELSE IF track[1].url = None
                THEN Throw("NotAvailable")
                     /\ UNCHANGED <<selected, playerJson>>
                ELSE /\ RetryLoop("transcript", 0, transcriptFetchParams(track[1]))
                     /\ selected' = track[1]
                     /\ playerJson' = Remaining(playerJson)
    /\ UNCHANGED <<fixed, settled, signalState, cached, page, doc, result,
                   cacheLog>>

\* _fetchCaptionTracks goes on after `await playerRes.json()` and returns
\* to listLanguages, which maps the tracks, or to fetchTranscript, which
\* selects the track and starts stage 4.
AfterPlayerBody ==
    /\ pc = "read" /\ stage = "player"
    /\ IF ~settled.ok
       THEN Throw(settled.error) /\ UNCHANGED <<selected, playerJson>>
       ELSE IF ClassifyPlayer(playerJson) # ""
       THEN ThrowWith(ClassifyPlayer(playerJson), WithVideoId(identifier))
            /\ UNCHANGED <<selected, playerJson>>
       ELSE IF entry = "listLanguages"
       THEN /\ Return([JsValue("languages", 0, <<>>, None) EXCEPT
                          !.languages =
                              Languages(Tracklist(playerJson).tracks.list)])
            /\ UNCHANGED <<selected, playerJson>>
       ELSE LET tracks == Tracklist(playerJson).tracks.list
                track == SelectTrack(tracks, cfg.lang)
            IN  IF track = None
                THEN ThrowWith("NotAvailableLanguage",
                               Carries(Some(identifier), cfg.lang,
                                       AvailableLangs(tracks)))
                     /\ UNCHANGED <<selected, playerJson>>
                ELSE IF track[1].url = None
                THEN ThrowWith("NotAvailable", WithVideoId(identifier))
                     /\ UNCHANGED <<selected, playerJson>>
                ELSE /\ RetryLoop("transcript", 0, transcriptFetchParams(track[1]))
                     /\ selected' = track[1]
                     /\ playerJson' = Remaining(playerJson)
    /\ UNCHANGED <<fixed, settled, signalState, cached, page, doc, result,
                   cacheLog>>

\* The same with the result stored before the segments are counted.
AfterTranscriptBodyStoresFirst ==
    /\ pc = "read" /\ stage = "transcript"
    /\ IF ~settled.ok
       THEN Throw(settled.error) /\ UNCHANGED <<result, cacheLog>>
       ELSE LET segments == Segments(doc, cfg.lang, selected)
            IN  /\ result' = BuildResult(segments)
                /\ IF cfg.cache
                   THEN /\ Await("cacheSet")
                        /\ cacheLog' = Append(cacheLog,
                             [op |-> "set",
                              key |-> CacheKey(identifier, cfg.lang,
                                               cfg.videoDetails)])
                   ELSE /\ IF segments = <<>>
                           THEN ThrowWith("NotAvailable",
                                          WithVideoId(identifier))
                           ELSE Return(BuildResult(segments))
                        /\ cacheLog' = cacheLog
    /\ UNCHANGED <<fixed, settled, signalState, payload, selected>>

\* fetchTranscript goes on after `await transcriptResponse.text()`: the
\* segments, the result, then the cache store or the return.
AfterTranscriptBody ==
    /\ pc = "read" /\ stage = "transcript"
    /\ IF ~settled.ok
       THEN Throw(settled.error) /\ UNCHANGED <<result, cacheLog>>
       ELSE LET segments == Segments(doc, cfg.lang, selected)
            IN  IF segments = <<>>
                THEN ThrowWith("NotAvailable", WithVideoId(identifier))
                     /\ UNCHANGED <<result, cacheLog>>
                ELSE /\ result' = BuildResult(segments)
                     /\ IF cfg.cache
                        THEN /\ Await("cacheSet")
                             /\ cacheLog' = Append(cacheLog,
                                  [op |-> "set",
                                   key |-> CacheKey(identifier, cfg.lang,
                                                    cfg.videoDetails)])
                        ELSE /\ Return(BuildResult(segments))
                             /\ cacheLog' = cacheLog
    /\ UNCHANGED <<fixed, settled, signalState, payload, selected>>

\* cache.set(cacheKey, JSON.stringify(result), cacheTTL) resolves.
CacheSetResolve ==
    /\ pc = "cacheSet"
    /\ settled' = Resolved("cacheSet", 0)
    /\ pc' = "cacheSetSettled"
    /\ UNCHANGED <<fixed, stage, attempt, calls, spent, request, waits,
                   outcome, signalState,
                   payload, selected, result, cacheLog>>

\* cache.set(...) rejects.
CacheSetReject ==
    /\ pc = "cacheSet"
    /\ settled' = Rejected("cacheSet", "CacheError")
    /\ pc' = "cacheSetSettled"
    /\ UNCHANGED <<fixed, stage, attempt, calls, spent, request, waits,
                   outcome, signalState,
                   payload, selected, result, cacheLog>>

\* fetchTranscript goes on after `await cache.set(...)`, inside try/catch:
\* the result is returned whether the store succeeded or not.
AfterCacheSetRethrow ==
    /\ pc = "cacheSetSettled"
    /\ IF settled.ok THEN Return(result) ELSE Throw(settled.error)
    /\ UNCHANGED <<fixed, settled, signalState, payload, selected, result,
                   cacheLog>>

AfterCacheSet ==
    /\ pc = "cacheSetSettled"
    /\ Return(result)
    /\ UNCHANGED <<fixed, settled, signalState, payload, selected, result,
                   cacheLog>>

(* ----------------- the operations of a cache instance ---------------- *)

\* new InMemoryCache(defaultTTL) / new FsCache(cacheDir, defaultTTL), with
\* no call of fetchWithRetry or fetchTranscript under way.
NoConfig ==
    [retries |-> None, retryDelay |-> None, signal |-> FALSE, lang |-> None,
     videoDetails |-> FALSE, cache |-> FALSE, hooks |-> {},
     disableHttps |-> FALSE]

CacheInit ==
    /\ entry \in CacheKinds
    /\ videoId = ""
    /\ cfg = NoConfig
    /\ identifier = ""
    /\ pc = "start"
    /\ stage = "none"
    /\ attempt = 0
    /\ calls = 0
    /\ spent = 0
    /\ request = NoRequest
    /\ waits = <<>>
    /\ outcome = Pending
    /\ settled = NothingSettled
    /\ aborted = FALSE
    /\ abortedAt = "never"
    /\ cached = None
    /\ page = NoPage
    /\ playerJson = NoPlayerJson
    /\ selected = NoTrack
    /\ doc = <<>>
    /\ result = NoValue
    /\ cacheLog = <<>>
    /\ defaultTTL \in DefaultTTLs
    /\ now = 0
    /\ store = EmptyStore
    /\ inflight = None
    /\ returned = NoReturn
    /\ written = NothingWritten
    /\ text = <<>>
    /\ decoded = <<>>

\* Time passes.
Tick ==
    /\ entry \in CacheKinds
    /\ now < MaxTime
    /\ now' = now + 1
    /\ UNCHANGED <<entry, call, defaultTTL, store, inflight, returned, written>>

\* InMemoryCache.get(key): the entry's value when it expires later than
\* now; otherwise the key is deleted and null is returned.
MemGetNoExpiry ==
    /\ entry = "InMemoryCache"
    /\ \E key \in CacheKeys :
          IF store[key] # None
          THEN /\ returned' = Hit(key, store[key][1], now)
               /\ store' = store
          ELSE /\ store' = [store EXCEPT ![key] = None]
               /\ returned' = Miss(key, now)
    /\ UNCHANGED <<entry, call, defaultTTL, now, inflight, written>>

MemGet ==
    /\ entry = "InMemoryCache"
    /\ \E key \in CacheKeys :
          IF store[key] # None /\ store[key][1].expires > now
          THEN /\ returned' = Hit(key, store[key][1], now)
               /\ store' = store
          ELSE /\ store' = [store EXCEPT ![key] = None]
               /\ returned' = Miss(key, now)
    /\ UNCHANGED <<entry, call, defaultTTL, now, inflight, written>>

\* InMemoryCache.set(key, value, ttl?)
MemSet ==
    /\ entry = "InMemoryCache"
    /\ \E key \in CacheKeys, value \in CacheValues, ttl \in TTLs :
          /\ store' = [store EXCEPT
                 ![key] = Some(Entry(value, now + OrElse(ttl, defaultTTL)))]
          /\ written' = [written EXCEPT ![key] = Some(Written(value, ttl, now))]
    /\ returned' = NoReturn
    /\ UNCHANGED <<entry, call, defaultTTL, now, inflight>>

\* FsCache.get(key) up to its return or to `await fs.unlink(filePath)`:
\* the file of the sanitized key is read and parsed; a missing file throws
\* into the empty catch and null is returned; a live entry is returned; for
\* an expired one the unlink is awaited.
FsGetRead ==
    /\ entry = "FsCache"
    /\ inflight = None
    /\ \E key \in CacheKeys :
          LET file == sanitizeKey(key)
          IN  IF store[file] = None
              THEN returned' = Miss(key, now) /\ inflight' = inflight
              ELSE IF store[file][1].expires > now
              THEN returned' = Hit(key, store[file][1], now)
                   /\ inflight' = inflight
              ELSE returned' = returned
                   /\ inflight' = Some(Unlinking(key, FALSE))
    /\ UNCHANGED <<entry, call, defaultTTL, now, store, written>>

\* FsCache.get(key) goes on after `await fs.unlink(filePath)`: the file is
\* gone (whatever it held by then) and null is returned.
FsGetUnlink ==
    /\ entry = "FsCache"
    /\ inflight # None
    /\ store' = [store EXCEPT ![sanitizeKey(inflight[1].key)] = None]
    /\ returned' = [Miss(inflight[1].key, now)
                        EXCEPT !.overtaken = inflight[1].overtaken]
    /\ inflight' = None
    /\ UNCHANGED <<entry, call, defaultTTL, now, written>>

\* FsCache.set(key, value, ttl?): { value, expires } is written to the file
\* of the sanitized key.
FsSet ==
    /\ entry = "FsCache"
    /\ \E key \in CacheKeys, value \in CacheValues, ttl \in TTLs :
          /\ store' = [store EXCEPT
                 ![sanitizeKey(key)] =
                     Some(Entry(value, now + OrElse(ttl, defaultTTL)))]
          /\ written' = [written EXCEPT ![key] = Some(Written(value, ttl, now))]
    /\ returned' = NoReturn
    /\ inflight' = IF inflight = None THEN None
                   ELSE Some(Unlinking(inflight[1].key, TRUE))
    /\ UNCHANGED <<entry, call, defaultTTL, now>>

(* ---------------------------- specification --------------------------- *)

Next ==
    \/ CallFetchWithRetry
    \/ FetchResolve
    \/ FetchReject
    \/ AfterFetch
    \/ TimerFire
    \/ Abort
    \/ AfterSleep
    \/ CallFetchTranscript
    \/ CallListLanguages
    \/ CacheGetResolve
    \/ CacheGetReject
    \/ AfterCacheGet
    \/ VideoBodyResolve
    \/ PlayerBodyResolve
    \/ TranscriptBodyResolve
    \/ BodyReject
    \/ AfterVideoBody
    \/ AfterPlayerBody
    \/ AfterTranscriptBody
    \/ CacheSetResolve
    \/ CacheSetReject
    \/ AfterCacheSet

Spec == Init /\ [][Next]_vars

\* The promises the calls await settle: transport calls, body reads, cache
\* operations and backoff timers.
Settles ==
    \/ FetchResolve
    \/ FetchReject
    \/ TimerFire
    \/ CacheGetResolve
    \/ CacheGetReject
    \/ VideoBodyResolve
    \/ PlayerBodyResolve
    \/ TranscriptBodyResolve
    \/ BodyReject
    \/ CacheSetResolve
    \/ CacheSetReject

\* The code of a call runs: from the call itself to its first await, and
\* from each settled await to the next one.
Continues ==
    \/ CallFetchWithRetry
    \/ CallFetchTranscript
    \/ CallListLanguages
    \/ AfterFetch
    \/ AfterSleep
    \/ AfterCacheGet
    \/ AfterVideoBody
    \/ AfterPlayerBody
    \/ AfterTranscriptBody
    \/ AfterCacheSet

\* The calls checked for completion: one identifier, no language, no video
\* details, https, and no retry, one retry or MaxRetries retries; hooks
\* come without retries and a cache with one retry at most.
LiveInit ==
    /\ Init
    /\ videoId \in {"", "dQw4w9WgXcQ"}
    /\ cfg.retries \in {None, Some(1), Some(MaxRetries)}
    /\ entry = "fetchWithRetry" \/ cfg.retryDelay = None
    /\ cfg.lang = None /\ ~cfg.videoDetails /\ ~cfg.disableHttps
    /\ cfg.hooks = {} \/ (cfg.hooks = Stages /\ cfg.retries = None)
    /\ ~cfg.cache \/ cfg.retries # Some(MaxRetries)

\* The calls under an event loop that runs every continuation that is
\* ready, and an environment that settles every promise awaited.
LiveSpec ==
    LiveInit /\ [][Next]_vars /\ WF_vars(Settles) /\ WF_vars(Continues)

\* decodeXmlEntities(text) called on its own, and once more on what it
\* returned.
DecodeInit ==
    /\ entry = "decodeXmlEntities"
    /\ text \in Texts
    /\ decoded = <<>>
    /\ videoId = ""
    /\ cfg = NoConfig
    /\ identifier = ""
    /\ pc = "start"
    /\ stage = "none"
    /\ attempt = 0
    /\ calls = 0
    /\ spent = 0
    /\ request = NoRequest
    /\ waits = <<>>
    /\ outcome = Pending
    /\ settled = NothingSettled
    /\ aborted = FALSE
    /\ abortedAt = "never"
    /\ cached = None
    /\ page = NoPage
    /\ playerJson = NoPlayerJson
    /\ selected = NoTrack
    /\ doc = <<>>
    /\ result = NoValue
    /\ cacheLog = <<>>
    /\ defaultTTL = 0
    /\ now = 0
    /\ store = EmptyStore
    /\ inflight = None
    /\ returned = NoReturn
    /\ written = NothingWritten

Decode ==
    /\ entry = "decodeXmlEntities"
    /\ Len(decoded) < 2
    /\ decoded' = Append(decoded,
                         decodeXmlEntities(IF decoded = <<>> THEN text
                                           ELSE decoded[Len(decoded)]))
    /\ UNCHANGED <<entry, videoId, cfg, identifier, control, settled,
                   signalState, payload, selected, result, cacheLog,
                   cacheObject, text>>

DecodeSpec == DecodeInit /\ [][Decode]_vars

\* A cache instance and its clients.
CacheNext ==
    \/ Tick
    \/ MemGet
    \/ MemSet
    \/ FsGetRead
    \/ FsGetUnlink
    \/ FsSet

CacheSpec == CacheInit /\ [][CacheNext]_vars


(* ============================== claims ================================ *)

\* The retryable statuses as the design states them: 429, or 500..599.
ClaimRetryable(status) == status = 429 \/ status \in 500..599

RECURSIVE SumSeq(_)
SumSeq(seq) == IF seq = <<>> THEN 0 ELSE Head(seq) + SumSeq(Tail(seq))

\* A step that calls the transport (fetchFn) / that starts a backoff timer.
StartsTransportCall == pc # "fetching" /\ pc' = "fetching"
StartsWait == pc # "sleeping" /\ pc' = "sleeping"

\* C1: fetchWithRetry hands the first response whose status is not
\* retryable to its caller as it is: it does not throw, does not call the
\* operation again and does not wait.  Called directly, the call resolves
\* with exactly that response.
C1_FirstNonRetryableReturned ==
    [][ (pc = "fetched" /\ settled.ok /\ ~ClaimRetryable(settled.status)
         /\ pc' # pc)
        => /\ calls' = calls
           /\ waits' = waits
           /\ pc' \notin {"fetching", "sleeping", "slept"}
           /\ outcome'.error \notin {"Unexpected", "AbortError", "TransportError"}
           /\ (stage = "op" =>
                 /\ pc' = "done"
                 /\ outcome' = Success(JsValue("response", settled.status,
                                               <<>>, None))) ]_vars

\* C1 witness: a direct call with retries > 0 whose operation answered a
\* retryable status once and then 200: two calls, one wait, the 200 returned.
C1_Witness ==
    /\ entry = "fetchWithRetry" /\ pc = "done" /\ Retries > 0
    /\ calls = 2 /\ Len(waits) = 1
    /\ outcome = Success(JsValue("response", 200, <<>>, None))

\* C2: with retries = n an operation that answers a retryable status on
\* every call is called n + 1 times and the last failing response is
\* returned, not thrown; a retryable response with attempts left is always
\* followed by a wait (unless the signal has triggered); with n = 0, also
\* when config.retries is unset, there is one call whatever the status.
C2_RetriesExhausted ==
    /\ [](/\ calls <= Retries + 1
          /\ (pc \in {"fetching", "fetched"} => calls = attempt + 1)
          /\ (cfg.retries = None => calls <= 1 /\ waits = <<>>)
          /\ (Retries = 0 => calls <= 1 /\ waits = <<>>)
          /\ (entry = "fetchWithRetry" /\ pc = "done" =>
                /\ outcome.error # "Unexpected"
                /\ (settled.of = "fetch" /\ settled.ok =>
                      outcome = Success(JsValue("response", settled.status,
                                                <<>>, None)))
                /\ (outcome.kind = "value"
                    /\ ClaimRetryable(outcome.value.status) =>
                      calls = Retries + 1)))
    /\ [][ (pc = "fetched" /\ settled.ok /\ ClaimRetryable(settled.status)
            /\ attempt < Retries /\ ~aborted /\ pc' # pc)
           => pc' = "sleeping" /\ outcome' = Pending ]_vars
    /\ [][ (pc = "slept" /\ settled.ok /\ ~aborted /\ pc' # pc)
           => pc' = "fetching" /\ calls' = calls + 1 ]_vars

\* C2 witness: a direct call with retries >= 2 that ended by returning a
\* retryable response after retries + 1 calls.
C2_Witness ==
    /\ entry = "fetchWithRetry" /\ pc = "done" /\ Retries >= 2
    /\ calls = Retries + 1
    /\ outcome.kind = "value" /\ outcome.value.status = 599

\* C3: the i-th wait of a fetchWithRetry (after 0-indexed attempt i - 1) is
\* retryDelay * 2^(i-1), so that retryDelay * (2^k - 1) has been waited
\* before attempt k; a wait is started only after a retryable response to
\* an attempt that is not the last one allowed.
C3_ExponentialBackoff ==
    /\ [](/\ \A i \in 1..Len(waits) : waits[i] = RetryDelay * 2 ^ (i - 1)
          /\ (pc \in {"fetching", "fetched"} =>
                /\ Len(waits) = attempt
                /\ SumSeq(waits) = RetryDelay * (2 ^ attempt - 1)))
    /\ [][ Len(waits') > Len(waits)
           => /\ pc = "fetched" /\ settled.ok
              /\ ClaimRetryable(settled.status)
              /\ attempt < Retries
              /\ waits' = Append(waits, RetryDelay * 2 ^ attempt) ]_vars

\* C3 witness: a third wait is running, after the waits retryDelay,
\* 2 * retryDelay.
C3_Witness ==
    /\ pc = "sleeping" /\ attempt = 2
    /\ waits = <<RetryDelay, 2 * RetryDelay, 4 * RetryDelay>>

\* C4: when the signal has triggered before fetchWithRetry is invoked, the
\* invocation fails at once with the signal's reason and the operation is
\* not called.
C4_AbortedBeforeInvocation ==
    /\ []((entry = "fetchWithRetry" /\ abortedAt = "before" /\ pc = "done")
            => outcome = AbortFailure /\ calls = 0 /\ waits = <<>>)
    /\ [][ (entry = "fetchWithRetry" /\ pc = "start" /\ aborted)
           => pc' = "done" ]_vars
    /\ [][ (stage' # stage /\ aborted)
           => pc' = "done" /\ outcome' = AbortFailure /\ calls' = 0 ]_vars

\* C4 witness: a direct call with a triggered signal has failed without a
\* call of the operation.
C4_Witness ==
    /\ entry = "fetchWithRetry" /\ abortedAt = "before" /\ pc = "done"
    /\ stage = "op" /\ calls = 0 /\ outcome = AbortFailure

\* C5: when the signal triggers during a backoff wait, the wait ends at
\* once by rejecting with the signal's reason, the invocation fails with
\* that reason instead of returning a response, and the operation is not
\* called again.
C5_AbortedDuringWait ==
    /\ [](abortedAt = "wait" =>
            /\ pc \in {"slept", "done"}
            /\ settled = Rejected("sleep", "AbortError")
            /\ Len(waits) = calls
            /\ (pc = "done" => outcome = AbortFailure))
    /\ [][ abortedAt = "wait" => ~StartsTransportCall /\ calls' = calls ]_vars

\* C5 witness: a call has failed with the signal's reason, the signal
\* having triggered during the wait after its second transport call.
C5_Witness ==
    /\ abortedAt = "wait" /\ pc = "done" /\ calls = 2
    /\ outcome = AbortFailure

\* C6: a fetchTranscript call whose signal triggers before the call
\* completes fails with the cancellation, not with a domain error, and
\* returns no result; stated for a signal that triggers during a transport
\* call of any stage (a hook's included) or during a backoff wait.
C6_CancellationAtAnyPoint ==
    (entry = "fetchTranscript" /\ pc = "done"
     /\ abortedAt \in {"transport", "wait"})
        => outcome = AbortFailure

\* C7: when cache.get resolves with a string that JSON.parse accepts,
\* fetchTranscript returns the parsed value, makes no transport call and
\* does not call cache.set.
C7_CacheHit ==
    /\ [][ (pc = "cacheGot" /\ settled.ok /\ Truthy(cached)
            /\ OrElse(cached, "") \in {"null", "42", "{}",
                 "[{\"text\":\"c\",\"duration\":1,\"offset\":0,\"lang\":\"en\"}]",
                 "{\"videoDetails\":{\"videoId\":\"dQw4w9WgXcQ\"},\"segments\":[{\"text\":\"c\",\"duration\":1,\"offset\":0,\"lang\":\"en\"}]}"}
            /\ pc' # pc)
           => /\ pc' = "done"
              /\ outcome' = Success(JSONParse(cached[1]).value)
              /\ stage' = "none" /\ calls' = 0
              /\ cacheLog' = cacheLog ]_vars
    /\ [](pc \in {"cacheGet", "cacheGot"} =>
            /\ stage = "none" /\ calls = 0
            /\ \A i \in 1..Len(cacheLog) : cacheLog[i].op = "get")

\* C7 witness: a call has returned the cached segment array without having
\* entered stage 1.
C7_Witness ==
    /\ entry = "fetchTranscript" /\ pc = "done" /\ stage = "none"
    /\ settled = Resolved("cacheGet", 0)
    /\ outcome = Success(JsValue("segments", 0, CachedSegments, None))
    /\ Len(cacheLog) = 1

\* C8: a rejection of cache.get is swallowed and treated as a
\* miss, so that no call fails with the cache's exception.
C8_CacheGetRejectionSwallowed ==
    ~(entry = "fetchTranscript" /\ pc = "done"
      /\ settled = Rejected("cacheGet", "CacheError")
      /\ outcome = Failure("CacheError"))

\* C9: cached content that does not parse as a result shape (a segment
\* array or a {videoDetails, segments} pair), be it invalid JSON or valid
\* JSON of another shape such as null, a number or an empty object, is
\* treated as a miss: a value returned without any stage having run is of
\* a result shape.
C9_MalformedCacheIsMiss ==
    (entry = "fetchTranscript" /\ pc = "done" /\ stage = "none"
     /\ outcome.kind = "value")
        => outcome.value.shape \in {"segments", "result"}

\* C10: when cache.set rejects after a successful pipeline run,
\* fetchTranscript still returns the complete result it built.
C10_CacheSetRejectionSwallowed ==
    (pc = "done" /\ settled.of = "cacheSet")
        => /\ outcome = Success(result)
           /\ result.segments # <<>>
           /\ result.shape = (IF cfg.videoDetails THEN "result" ELSE "segments")

\* C10 witness: cache.set has rejected and the call has returned its result.
C10_Witness ==
    /\ pc = "done" /\ settled = Rejected("cacheSet", "CacheError")
    /\ outcome.kind = "value" /\ Len(outcome.value.segments) = 2

\* Identifiers and language tags of a second call, whose key is compared
\* with the key the modelled call uses.
ClaimIdentifiers == {"dQw4w9WgXcQ", "abcdefghijk", "dQw4w9WgXc-"}
ClaimLangs == {None, Some(""), Some("en"), Some("fr"), Some("en-US")}

\* C11: the cache key of a fetchTranscript call is a function of its
\* resolved identifier, its language (or the empty string) and its
\* videoDetails flag: the lookup and the store of a call use one key, and a
\* second call has that key iff it agrees on all three components.
C11_CacheKeyDeterminesEntry ==
    \A i \in 1..Len(cacheLog) :
        /\ cacheLog[i].key = cacheLog[1].key
        /\ \A id \in ClaimIdentifiers, lang \in ClaimLangs, details \in BOOLEAN :
              (CacheKey(id, lang, details) = cacheLog[i].key)
                  <=> /\ id = identifier
                      /\ OrElse(lang, "") = OrElse(cfg.lang, "")
                      /\ details = cfg.videoDetails

\* C11 witness: a metadata-enriched call for "en" has looked its key up and
\* stored its result under it.
C11_Witness ==
    /\ pc = "done" /\ cfg.videoDetails /\ cfg.lang = Some("en")
    /\ Len(cacheLog) = 2
    /\ cacheLog[1].op = "get" /\ cacheLog[2].op = "set"
    /\ cacheLog[2].key = "yt:transcript+details:dQw4w9WgXcQ:en"

\* When the entry a completed set wrote expires: the time of the set plus
\* its ttl or, with the ttl omitted, the instance's default TTL.
ClaimExpiry(w) == w.at + OrElse(w.ttl, defaultTTL)

\* C12: a get of an InMemoryCache or FsCache never returns a value whose
\* expiry time has passed: a value returned was written by a set whose
\* entry expires later than the time of the get, and after a get has
\* reported a miss the store holds no entry under the key's name.
C12_NoExpiredValueReturned ==
    (entry \in CacheKinds /\ returned.op = "get") =>
        IF returned.hit
        THEN /\ returned.expires > returned.at
             /\ \E k \in CacheKeys :
                   /\ written[k] # None
                   /\ written[k][1].value = returned.value
                   /\ ClaimExpiry(written[k][1]) = returned.expires
        ELSE store[IF entry = "FsCache" THEN sanitizeKey(returned.key)
                   ELSE returned.key] = None

\* C12 witness: an InMemoryCache get has reported a miss for a key whose
\* last set wrote an entry that had expired by then.
C12_Witness ==
    /\ entry = "InMemoryCache"
    /\ returned.op = "get" /\ ~returned.hit
    /\ written[returned.key] # None
    /\ ClaimExpiry(written[returned.key][1]) <= returned.at

\* C13: for InMemoryCache and FsCache, a get of a key issued after a set
\* of that key has completed, before the set's ttl (the default TTL when
\* omitted) has elapsed and with no later set of that key, returns the
\* value that set stored.
C13_RoundTrip ==
    (entry \in CacheKinds /\ returned.op = "get" /\ ~returned.overtaken
     /\ written[returned.key] # None
     /\ returned.at < ClaimExpiry(written[returned.key][1]))
        => returned.hit /\ returned.value = written[returned.key][1].value


(* C14: every fetchTranscript call either resolves with a complete,
   non-empty transcript or rejects with one of the seven domain kinds,
   whatever the stages answer: a transport call that throws and a player
   body that is no JSON included.  Stated for calls without a cache and
   without cancellation, where no other rejection has a source. *)
DomainKinds ==
    {"InvalidVideoId", "InvalidLang", "VideoUnavailable", "TooManyRequests",
     "Disabled", "NotAvailable", "NotAvailableLanguage"}

C14_DomainKindsOnly ==
    (entry = "fetchTranscript" /\ pc = "done" /\ ~cfg.cache
     /\ abortedAt = "never") =>
        \/ /\ outcome.kind = "value"
           /\ outcome.value.shape = (IF cfg.videoDetails THEN "result"
                                     ELSE "segments")
           /\ outcome.value.segments = Segments(doc, cfg.lang, selected)
           /\ outcome.value.segments # <<>>
        \/ /\ outcome.kind = "error"
           /\ outcome.error \in DomainKinds

(* C15: stage 1 decides in this order.  A non-success watch-page response
   returned by the retrying transport (a final 429 included) fails the call
   with VideoUnavailable and its body is never read; a body read with the
   bot-challenge marker fails it with TooManyRequests, with or without an
   API key in the body; a body with neither marker nor key fails it with
   NotAvailable; and stage 2 starts only from a body without the marker and
   with a key. *)
C15_AfterStage1 ==
    (entry = "fetchTranscript" /\ stage = "video") =>
        /\ (pc = "done" /\ settled.of = "fetch" /\ settled.ok) =>
              /\ ~ResponseOk(settled.status)
              /\ outcome = FailureWith("VideoUnavailable",
                                       WithVideoId(identifier))
        /\ (pc = "reading") =>
              settled.of = "fetch" /\ settled.ok /\ ResponseOk(settled.status)
        /\ (pc = "done" /\ settled = Resolved("text", 0)) =>
              /\ page.marker \/ page.key = "none"
              /\ outcome = IF page.marker THEN Failure("TooManyRequests")
                           ELSE FailureWith("NotAvailable",
                                            WithVideoId(identifier))

C15_Stage1DecisionOrder ==
    [][/\ C15_AfterStage1'
       /\ (stage = "video" /\ stage' # "video") =>
              /\ stage' = "player"
              /\ pc = "read" /\ settled = Resolved("text", 0)
              /\ ~page.marker /\ page.key # "none"]_vars

C15_Witness ==
    /\ entry = "fetchTranscript" /\ pc = "done" /\ stage = "video"
    /\ settled = Resolved("text", 0)
    /\ page.marker /\ page.key # "none"
    /\ outcome.error = "TooManyRequests"

(* C16: when the parsed player response has neither a captions field nor a
   caption-track list at the top-level path, the call fails with Disabled
   if playabilityStatus.status is "OK" and with NotAvailable otherwise; and
   this classification is not applied to a response that has a track list
   at the top-level path, although it has no captions field. *)
C16_RuleAOnlyWhenBothAbsent ==
    (entry = "fetchTranscript" /\ pc = "done" /\ stage = "player"
     /\ settled = Resolved("json", 0) /\ playerJson.captions = "undefined") =>
        IF ~playerJson.top
        THEN outcome = FailureWith(IF playerJson.status = "OK" THEN "Disabled"
                                   ELSE "NotAvailable",
                                   WithVideoId(identifier))
        ELSE outcome.error \notin {"Disabled", "NotAvailable"}

(* C17: when the player response has a captions field but no usable track
   list (no list at either path, a captionTracks that is not an array, or
   an empty array), the call fails with Disabled whatever
   playabilityStatus.status is. *)
ClaimUsableList(j) ==
    \/ j.captions = "renderer" /\ j.capTracks.kind = "array"
                               /\ j.capTracks.list # <<>>
    \/ j.captions = "empty" /\ j.top /\ j.topTracks.kind = "array"
                            /\ j.topTracks.list # <<>>

C17_RuleBWhateverPlayability ==
    (entry = "fetchTranscript" /\ pc = "done" /\ stage = "player"
     /\ settled = Resolved("json", 0) /\ playerJson.captions # "undefined"
     /\ ~ClaimUsableList(playerJson)) =>
        outcome = FailureWith("Disabled", WithVideoId(identifier))

(* C18: when stage 2 has returned a non-empty track list, a requested
   (non-empty) language tag selects the first track in list order whose
   languageCode equals the tag, and no tag selects the first track; a
   requested tag that no track has fails the call with
   NotAvailableLanguage carrying the tag, the identifier and the tracks'
   language codes in list order without the empty ones, and no further
   transport call is made. *)
RECURSIVE ClaimFirstMatch(_, _, _)
ClaimFirstMatch(tracks, tag, i) ==
    IF i > Len(tracks) THEN 0
    ELSE IF tracks[i].languageCode = tag THEN i
    ELSE ClaimFirstMatch(tracks, tag, i + 1)

RECURSIVE ClaimCodes(_)
ClaimCodes(tracks) ==
    IF tracks = <<>> THEN <<>>
    ELSE (IF Head(tracks).languageCode = "" THEN <<>>
          ELSE <<Head(tracks).languageCode>>) \o ClaimCodes(Tail(tracks))

ClaimExpectedTrack(tracks) ==
    IF Truthy(cfg.lang) THEN ClaimFirstMatch(tracks, cfg.lang[1], 1) ELSE 1

C18_TrackSelection ==
    [][(/\ entry = "fetchTranscript"
        /\ pc = "read" /\ stage = "player" /\ pc' # "read"
        /\ settled = Resolved("json", 0)
        /\ ClassifyPlayer(playerJson) = "") =>
           LET tracks == Tracklist(playerJson).tracks.list
               m == ClaimExpectedTrack(tracks)
           IN  IF m = 0
               THEN /\ pc' = "done"
                    /\ outcome' = FailureWith("NotAvailableLanguage",
                           Carries(Some(identifier), cfg.lang,
                                   ClaimCodes(tracks)))
                    /\ calls' = calls /\ stage' = stage
               ELSE /\ outcome'.error # "NotAvailableLanguage"
                    /\ (stage' = "transcript") <=> (tracks[m].url # None)
                    /\ (stage' = "transcript") => (selected' = tracks[m])
                    /\ (stage' # "transcript") =>
                          outcome' = FailureWith("NotAvailable",
                                         WithVideoId(identifier))]_vars

C18_Witness ==
    /\ entry = "fetchTranscript" /\ pc = "done" /\ stage = "player"
    /\ cfg.lang = Some("fr")
    /\ Len(Tracklist(playerJson).tracks.list) = 4
    /\ outcome = FailureWith("NotAvailableLanguage",
                     Carries(Some(identifier), Some("fr"), <<"de", "en", "en">>))
    /\ calls = 2

(* C19: when the retrying transport returns a non-success
   transcript-document response, the call fails with TooManyRequests if the
   status is 429 and with NotAvailable for any other status; the body is
   read only of a success response. *)
C19_Stage4ErrorMapping ==
    (entry = "fetchTranscript" /\ stage = "transcript") =>
        /\ (pc = "done" /\ settled.of = "fetch" /\ settled.ok) =>
              /\ ~ResponseOk(settled.status)
              /\ outcome = IF settled.status = 429
                           THEN Failure("TooManyRequests")
                           ELSE FailureWith("NotAvailable",
                                            WithVideoId(identifier))
        /\ (pc = "reading") =>
              settled.of = "fetch" /\ settled.ok /\ ResponseOk(settled.status)

C19_Witness ==
    /\ entry = "fetchTranscript" /\ pc = "done" /\ stage = "transcript"
    /\ settled = Resolved("fetch", 429)
    /\ outcome = Failure("TooManyRequests")

(* C20: for a videoId that resolves, every configured language tag that
   does not match the BCP-47-shaped pattern ("en;drop", "" and "<script>"
   among them) fails the call with InvalidLang carrying the tag, before any
   cache lookup and any transport call; a tag that matches ("en", "fr",
   "pt-BR") never causes InvalidLang. *)
ClaimWellFormedTags == {"en", "fr", "pt-BR", "zh-Hans"}

C20_InvalidLangRejected ==
    (entry = "fetchTranscript" /\ pc # "start" /\ identifier # ""
     /\ cfg.lang # None) =>
        IF cfg.lang[1] \in ClaimWellFormedTags
        THEN outcome.error # "InvalidLang"
        ELSE /\ pc = "done"
             /\ outcome = FailureWith("InvalidLang",
                                      Carries(None, cfg.lang, <<>>))
             /\ cacheLog = <<>> /\ calls = 0

(* C21: a videoId of exactly 11 characters of [A-Za-z0-9_-] is the
   identifier of the call, unchanged; a videoId that is neither such a
   string nor a known URL fails fetchTranscript and listLanguages with
   InvalidVideoId before any cache access and any transport call. *)
ClaimElevenCharIds == {"dQw4w9WgXcQ", "a_b-c_d-e_f"}
ClaimKnownUrls == {"https://www.youtube.com/watch?v=dQw4w9WgXcQ"}

C21_IdentifierResolution ==
    (entry \in {"fetchTranscript", "listLanguages"} /\ pc # "start") =>
        /\ (videoId \in ClaimElevenCharIds) =>
              identifier = videoId /\ outcome.error # "InvalidVideoId"
        /\ (videoId \in ClaimKnownUrls) =>
              identifier = "dQw4w9WgXcQ" /\ outcome.error # "InvalidVideoId"
        /\ (videoId \notin ClaimElevenCharIds \cup ClaimKnownUrls) =>
              /\ pc = "done" /\ outcome = Failure("InvalidVideoId")
              /\ identifier = "" /\ stage = "none"
              /\ cacheLog = <<>> /\ calls = 0 /\ request = NoRequest

C21_Witness ==
    /\ entry = "listLanguages" /\ pc = "done"
    /\ videoId = "hello world" /\ cfg.cache
    /\ outcome = Failure("InvalidVideoId")

(* C22: whenever a transport call of a stage is under way, on the first
   attempt as on every retry, it is a call of the stage's hook if the
   caller configured one and of the default transport otherwise, one call
   per attempt, and what it was given is the request description of the
   stage (url, method, headers, body, lang, userAgent, signal), which does
   not depend on the hooks. *)
ClaimHook == [video |-> "videoFetch", player |-> "playerFetch",
              transcript |-> "transcriptFetch"]

ClaimDescription ==
    CASE stage = "video" -> watchFetchParams(identifier)
      [] stage = "player" -> playerFetchParams
      [] stage = "transcript" -> transcriptFetchParams(selected)

C22_HookReplacesTransport ==
    (entry \in {"fetchTranscript", "listLanguages"} /\ pc = "fetching") =>
        /\ request.via = IF stage \in cfg.hooks THEN ClaimHook[stage]
                         ELSE "defaultFetch"
        /\ request.params = ClaimDescription
        /\ request.params.signal = cfg.signal
        /\ request.params.userAgent = "DEFAULT_USER_AGENT"
        /\ calls = attempt + 1

C22_Witness ==
    /\ entry = "fetchTranscript" /\ pc = "fetching" /\ stage = "player"
    /\ cfg.hooks = {"player"} /\ attempt = 1
    /\ request.via = "playerFetch"
    /\ request.params.method = Some("POST")

(* C23: decodeXmlEntities returns a text without any of the six entities
   unchanged and replaces each of the six entities (&amp; &lt; &gt; &quot;
   &apos; &#39;), in any combination, by its character, in one pass from
   left to right; applied to its own result it changes nothing when the
   text holds no &amp;. *)
ClaimEntities ==
    {<<<<"&", "a", "m", "p", ";">>, "&">>, <<<<"&", "l", "t", ";">>, "<">>,
     <<<<"&", "g", "t", ";">>, ">">>, <<<<"&", "q", "u", "o", "t", ";">>, "\"">>,
     <<<<"&", "a", "p", "o", "s", ";">>, "'">>,
     <<<<"&", "#", "3", "9", ";">>, "'">>}

ClaimEntityAt(t, i) ==
    {e \in ClaimEntities :
        /\ i + Len(e[1]) - 1 <= Len(t)
        /\ SubSeq(t, i, i + Len(e[1]) - 1) = e[1]}

RECURSIVE ClaimReplaced(_, _)
ClaimReplaced(t, i) ==
    IF i > Len(t) THEN <<>>
    ELSE IF ClaimEntityAt(t, i) = {} THEN <<t[i]>> \o ClaimReplaced(t, i + 1)
    ELSE LET e == CHOOSE x \in ClaimEntityAt(t, i) : TRUE
         IN  <<e[2]>> \o ClaimReplaced(t, i + Len(e[1]))

ClaimHasEntity(t) == \E i \in 1..Len(t) : ClaimEntityAt(t, i) # {}
ClaimHasAmp(t) ==
    \E i \in 1..Len(t) : \E e \in ClaimEntityAt(t, i) : e[2] = "&"

C23_DecodedOnce ==
    (entry = "decodeXmlEntities" /\ decoded # <<>>) =>
        /\ decoded[1] = ClaimReplaced(text, 1)
        /\ ~ClaimHasEntity(text) => decoded[1] = text
        /\ (Len(decoded) = 2 /\ ~ClaimHasAmp(text)) => decoded[2] = decoded[1]

C23_Witness ==
    /\ entry = "decodeXmlEntities" /\ Len(decoded) = 2
    /\ text = <<"&", "l", "t", ";", "&", "#", "3", "9", ";">>
    /\ decoded[1] = <<"<", "'">> /\ decoded[2] = decoded[1]

\* C23 as stated: decoding is idempotent on every text over the entity
\* alphabet.
C23_Idempotent ==
    (entry = "decodeXmlEntities" /\ Len(decoded) = 2) => decoded[2] = decoded[1]

(* C24: a listLanguages call runs the watch-page and the captioned-track
   stage only: it makes no transcript-document request and no cache
   operation; when it succeeds it returns one entry per caption track, in
   the order of the list, with isAutoGenerated true exactly for the tracks
   of kind 'asr'; and it fails as fetchTranscript does in stage 1
   (VideoUnavailable, TooManyRequests, NotAvailable) and in stage 2
   (VideoUnavailable and the classification of the player response). *)
ClaimStageFailure ==
    /\ (pc = "done" /\ settled.of = "fetch" /\ settled.ok) =>
          /\ ~ResponseOk(settled.status)
          /\ outcome = FailureWith("VideoUnavailable", WithVideoId(identifier))
    /\ (pc = "done" /\ stage = "video" /\ settled = Resolved("text", 0)) =>
          outcome = IF page.marker THEN Failure("TooManyRequests")
                    ELSE FailureWith("NotAvailable", WithVideoId(identifier))
    /\ (pc = "done" /\ settled = Resolved("json", 0)
        /\ ClassifyPlayer(playerJson) # "") =>
          outcome = FailureWith(ClassifyPlayer(playerJson),
                                WithVideoId(identifier))

C24_ListLanguagesTwoStages ==
    /\ (entry \in {"listLanguages", "fetchTranscript"}
        /\ stage \in {"video", "player"}) => ClaimStageFailure
    /\ (entry = "listLanguages") =>
        /\ stage \in {"none", "video", "player"}
        /\ request.via \in {"none", "defaultFetch", "videoFetch", "playerFetch"}
        /\ cacheLog = <<>> /\ cached = None
        /\ pc \notin {"cacheGet", "cacheGot", "cacheSet", "cacheSetSettled"}
        /\ (pc = "done" /\ settled = Resolved("json", 0)
            /\ ClassifyPlayer(playerJson) = "") =>
              LET tracks == Tracklist(playerJson).tracks.list
                  list == outcome.value.languages
              IN  /\ outcome.kind = "value"
                  /\ outcome.value.shape = "languages"
                  /\ Len(list) = Len(tracks)
                  /\ \A i \in 1..Len(tracks) :
                        /\ list[i].languageCode = tracks[i].languageCode
                        /\ list[i].isAutoGenerated
                              <=> (tracks[i].kind = Some("asr"))
        /\ (pc = "done" /\ outcome.kind = "value") =>
              settled = Resolved("json", 0) /\ ClassifyPlayer(playerJson) = ""

C24_Witness ==
    /\ entry = "listLanguages" /\ pc = "done" /\ cfg.cache
    /\ outcome.kind = "value"
    /\ Len(outcome.value.languages) = 4
    /\ outcome.value.languages[1].isAutoGenerated
    /\ ~outcome.value.languages[2].isAutoGenerated
    /\ outcome.value.languages[1].languageCode = "de"

(* C25: within one fetchTranscript call the stages run in the order
   watch-page fetch, captioned-track query, track selection,
   transcript-document fetch, document parse.  A stage begins only when the
   response of the stage before it has been returned by the retrying
   transport and its body has been read; a transport call begins only when
   none is under way; the track is selected on the step that begins the
   transcript stage and the result is built from the transcript body. *)
ClaimNextStage == [none |-> "video", video |-> "player", player |-> "transcript"]

C25_StagesInOrder ==
    [][(entry = "fetchTranscript") =>
          /\ (stage' # stage) =>
                /\ stage # "transcript" /\ stage' = ClaimNextStage[stage]
                /\ attempt' = 0
                /\ (stage = "none") => pc \in {"start", "cacheGot"}
                /\ (stage # "none") => pc = "read" /\ settled.ok
          /\ (pc' = "fetching" /\ <<stage', attempt'>> # <<stage, attempt>>) =>
                pc \in {"start", "cacheGot", "read", "slept"}
          /\ (selected' # selected) =>
                stage = "player" /\ stage' = "transcript"
          /\ (result' # result) =>
                stage = "transcript" /\ pc = "read" /\ settled.ok]_vars

C25_Witness ==
    /\ entry = "fetchTranscript" /\ pc = "fetching" /\ stage = "transcript"
    /\ attempt = 1 /\ selected # NoTrack /\ result = NoValue

(* C26: a fetchTranscript or listLanguages call that has failed does
   nothing more: no step follows its failure, so no transport call and no
   stage.  No stage is entered twice, and a transport call is repeated
   within a stage only by fetchWithRetry, after a backoff wait that ran
   out, as the next attempt. *)
ClaimStageRank == [none |-> 0, video |-> 1, player |-> 2, transcript |-> 3]

C26_FailureIsTerminal ==
    [][(entry \in {"fetchTranscript", "listLanguages"}) =>
          /\ pc # "done"
          /\ (pc' = "fetching" /\ <<stage', attempt'>> # <<stage, attempt>>) =>
                \/ /\ ClaimStageRank[stage'] = ClaimStageRank[stage] + 1
                   /\ attempt' = 0
                \/ /\ stage' = stage /\ attempt' = attempt + 1
                   /\ attempt' <= Retries
                   /\ pc = "slept" /\ settled = Resolved("sleep", 0)
                   /\ request' = request
          /\ ClaimStageRank[stage'] >= ClaimStageRank[stage]]_vars

C26_Witness ==
    /\ entry = "fetchTranscript" /\ pc = "done" /\ stage = "video"
    /\ outcome = FailureWith("NotAvailable", WithVideoId(identifier))
    /\ calls = 2

(* C27: a player response whose only caption-track list is the non-empty
   one at the top-level path (no renderer under captions) is handled as the
   same response with the list under captions: the call goes on to track
   selection, so fetchTranscript ends at this stage only with
   NotAvailableLanguage, when no track has the requested tag, and
   listLanguages returns the languages of the list. *)
ClaimTopLevelOnly(j) ==
    /\ j.captions # "renderer" /\ j.top
    /\ j.topTracks.kind = "array" /\ j.topTracks.list # <<>>

C27_TopLevelListSelected ==
    (pc = "done" /\ stage = "player" /\ settled = Resolved("json", 0)
     /\ ClaimTopLevelOnly(playerJson)) =>
        IF entry = "listLanguages"
        THEN outcome.shape = "languages"
             /\ outcome.languages = Languages(playerJson.topTracks.list)
        ELSE /\ SelectTrack(playerJson.topTracks.list, cfg.lang) = None
             /\ outcome.error = "NotAvailableLanguage"

(* C28: the URL requested for the transcript document is the selected
   track's URL without its fmt= query parameters, wherever they stand
   (first after "?", in the middle, last, or repeated), with the other
   parameters kept in order, and with the scheme https replaced by http
   exactly when disableHttps is configured. *)
ClaimFirst(c, s) == CHOOSE i \in 1..Len(s) : s[i] = c /\ \A k \in 1..(i - 1) : s[k] # c

RECURSIVE ClaimSplit(_)
ClaimSplit(s) ==
    IF \A k \in 1..Len(s) : s[k] # "&" THEN <<s>>
    ELSE <<SubSeq(s, 1, ClaimFirst("&", s) - 1)>>
         \o ClaimSplit(SubSeq(s, ClaimFirst("&", s) + 1, Len(s)))

RECURSIVE ClaimJoin(_)
ClaimJoin(ps) ==
    IF ps = <<>> THEN <<>>
    ELSE IF Len(ps) = 1 THEN ps[1]
    ELSE ps[1] \o <<"&">> \o ClaimJoin(Tail(ps))

ClaimIsFmt(p) == Len(p) >= 4 /\ SubSeq(p, 1, 4) = <<"f", "m", "t", "=">>

ClaimWithoutFmt(url) ==
    LET q == ClaimFirst("?", url)
        kept == SelectSeq(ClaimSplit(SubSeq(url, q + 1, Len(url))),
                          LAMBDA p : ~ClaimIsFmt(p))
    IN  SubSeq(url, 1, q) \o ClaimJoin(kept)

ClaimScheme(url) ==
    IF cfg.disableHttps /\ SubSeq(url, 1, 5) = <<"h", "t", "t", "p", "s">>
    THEN <<"h", "t", "t", "p">> \o SubSeq(url, 6, Len(url))
    ELSE url

C28_NoFmtInTranscriptUrl ==
    (entry = "fetchTranscript" /\ stage = "transcript" /\ pc = "fetching") =>
        request.params.url =
            ClaimScheme(ClaimWithoutFmt(Chars(selected.url[1])))

(* C29: a fetchTranscript call that resolves from a fetched document
   returns exactly one segment for each matched <text> element, the i-th
   segment made from the i-th match; and a document read with no match
   fails the call with NotAvailable carrying the identifier, with no write
   to the cache. *)
C29_OneSegmentPerElement ==
    (entry = "fetchTranscript" /\ pc = "done" /\ stage = "transcript") =>
        /\ (outcome.kind = "value") =>
              /\ doc # <<>>
              /\ Len(outcome.value.segments) = Len(doc)
              /\ \A i \in 1..Len(doc) :
                    /\ outcome.value.segments[i].offset = parseFloat(doc[i].start)
                    /\ outcome.value.segments[i].duration = parseFloat(doc[i].dur)
                    /\ outcome.value.segments[i].text =
                           decodeXmlEntities(doc[i].body)
        /\ (doc = <<>> /\ settled = Resolved("text", 0)) =>
              /\ outcome = FailureWith("NotAvailable", WithVideoId(identifier))
              /\ \A k \in 1..Len(cacheLog) : cacheLog[k].op # "set"

C29_Witness ==
    /\ entry = "fetchTranscript" /\ pc = "done" /\ stage = "transcript"
    /\ cfg.cache /\ outcome.kind = "value"
    /\ Len(doc) = 2 /\ doc[1] # doc[2]

(* C30: whatever language is configured (none, the empty string or a
   well-formed tag), every segment of a result built from a fetched
   document has as lang the languageCode of the track whose document was
   fetched, which is the requested tag when one was requested; so all
   segments of one result have the same lang. *)
C30_SegmentLangIsTrackLang ==
    (entry = "fetchTranscript" /\ pc = "done" /\ stage = "transcript"
     /\ outcome.kind = "value") =>
        \A i \in 1..Len(outcome.value.segments) :
            /\ outcome.value.segments[i].lang = selected.languageCode
            /\ outcome.value.segments[i].lang = outcome.value.segments[1].lang
            /\ Truthy(cfg.lang) => outcome.value.segments[i].lang = cfg.lang[1]

(* C31: every request description that fetchTranscript or listLanguages
   hands to a transport (the default one or a hook, at any stage and on any
   attempt) has a lang field that is absent or a tag matching the
   BCP-47-shaped pattern, and so has every Accept-Language header that
   defaultFetch builds from it. *)
ClaimValidatedLang(opt) == opt = None \/ opt[1] \in ClaimWellFormedTags

C31_OnlyValidatedLangSent ==
    (entry \in {"fetchTranscript", "listLanguages"} /\ pc = "fetching") =>
        /\ ClaimValidatedLang(request.params.lang)
        /\ ClaimValidatedLang(AcceptLanguage(request.params))

(* C32: every network stage of a call has a retry budget and a backoff
   index of its own.  With retries = n a stage makes at most n + 1
   transport calls, fetchTranscript at most 3 * (n + 1) and listLanguages
   at most 2 * (n + 1) in all, and the waits of a stage are retryDelay *
   2^0, retryDelay * 2^1, ... from its first one on, however many calls the
   stages before it made. *)
ClaimStages == IF entry = "fetchTranscript" THEN 3 ELSE 2

C32_FreshBudgetPerStage ==
    (entry \in {"fetchTranscript", "listLanguages"}) =>
        /\ calls <= Retries + 1
        /\ spent + calls <= ClaimStages * (Retries + 1)
        /\ spent <= (ClaimStageRank[stage] - 1) * (Retries + 1) \/ stage = "none"
        /\ (pc \in {"fetching", "fetched"}) => calls = attempt + 1
        /\ \A i \in 1..Len(waits) : waits[i] = RetryDelay * 2 ^ (i - 1)

C32_Witness ==
    /\ entry = "fetchTranscript" /\ pc = "done" /\ stage = "transcript"
    /\ Retries = 2 /\ calls = 3 /\ spent = 6
    /\ waits = <<RetryDelay, RetryDelay * 2>>

(* C33: with retries a non-negative integer, fetchWithRetry never fails
   with its "retry loop exited without returning" error, whatever the
   operation answers: called directly it ends with a response returned,
   with the cancellation reason or with the operation's own exception, and
   no call that goes through it ends with that error. *)
C33_LoopAlwaysReturns ==
    /\ outcome.error # "Unexpected"
    /\ (entry = "fetchWithRetry" /\ pc = "done") =>
          \/ /\ outcome.kind = "value" /\ outcome.value.shape = "response"
             /\ outcome.value.status \in Statuses
          \/ outcome = AbortFailure
          \/ outcome = Failure("TransportError")

C33_Witness ==
    /\ entry = "fetchWithRetry" /\ pc = "done" /\ cfg.retries = Some(0)
    /\ calls = 1 /\ waits = <<>>
    /\ outcome.kind = "value" /\ outcome.value.status = 500

(* C34: when the operation given to fetchWithRetry throws on an attempt,
   fetchWithRetry fails with that exception on its next step, with no
   further attempt and no backoff wait, however many attempts remain; a
   wait is started only after a response with a retryable status. *)
C34_ExceptionNotRetried ==
    [][/\ (pc = "fetched" /\ ~settled.ok /\ pc' # pc) =>
              /\ pc' = "done" /\ outcome' = Failure(settled.error)
              /\ calls' = calls /\ waits' = waits /\ attempt' = attempt
       /\ (Len(waits') > Len(waits)) =>
              pc = "fetched" /\ settled.ok /\ isRetryableStatus(settled.status)]_vars

C34_Witness ==
    /\ entry = "fetchWithRetry" /\ pc = "done" /\ Retries = 3
    /\ attempt = 1 /\ calls = 2 /\ Len(waits) = 1
    /\ settled = Rejected("fetch", "TransportError")
    /\ outcome = Failure("TransportError")

(* C35: fetchTranscript calls cache.set at most once in a call, after the
   lookup under the same key, and only once the transcript document has
   been read and has given at least one segment; the call then resolves
   with the stored result.  A call answered from the cache and a call that
   fails make no cache write. *)
ClaimSets == {k \in 1..Len(cacheLog) : cacheLog[k].op = "set"}

C35_CacheWrittenOnSuccessOnly ==
    (entry = "fetchTranscript") =>
        /\ Cardinality(ClaimSets) <= 1
        /\ (ClaimSets # {}) =>
              /\ cfg.cache /\ ClaimSets = {2}
              /\ cacheLog[1].op = "get" /\ cacheLog[2].key = cacheLog[1].key
              /\ stage = "transcript" /\ doc # <<>>
              /\ Len(result.segments) = Len(doc)
              /\ (pc = "done") => outcome = Success(result)
        /\ (pc = "done" /\ outcome.kind = "error") => ClaimSets = {}
        /\ (pc = "done" /\ stage = "none") => ClaimSets = {}

C35_Witness ==
    /\ entry = "fetchTranscript" /\ pc = "done" /\ cfg.cache
    /\ ClaimSets = {2} /\ spent = 2 /\ cfg.videoDetails
    /\ outcome.value.shape = "result"

(* C36: an FsCache.get that read an expired file of a key never deletes the
   entry a set of that same key wrote while the get was under way: when
   the get's unlink removes a file that holds what the last completed set
   of the key stored, that entry has expired.  Stated for an instance on
   which no other key has been set. *)
ClaimHoldsLastSet(key) ==
    /\ written[key] # None
    /\ \A other \in CacheKeys \ {key} : written[other] = None
    /\ store[sanitizeKey(key)] =
           Some(Entry(written[key][1].value, ClaimExpiry(written[key][1])))

C36_GetKeepsNewerEntry ==
    [][(/\ entry = "FsCache"
        /\ inflight # None /\ inflight' = None
        /\ ClaimHoldsLastSet(inflight[1].key)) =>
           ClaimExpiry(written[inflight[1].key][1]) <= now]_vars

(* C37: the keys of an FsCache are isolated from one another: a get of a
   key returns only a value that a set of that very key stored, for any two
   distinct keys, those that differ only in characters outside
   [A-Za-z0-9_-] included. *)
C37_KeysIsolated ==
    (entry = "FsCache" /\ returned.op = "get" /\ returned.hit) =>
        /\ written[returned.key] # None
        /\ \A other \in CacheKeys \ {returned.key} :
              (written[other] # None
               /\ written[other][1].value # written[returned.key][1].value)
                  => returned.value # written[other][1].value

(* C38: when every transport call, body read, cache operation and backoff
   timer awaited settles, every call of fetchWithRetry, fetchTranscript
   and listLanguages completes: it returns a result or fails. *)
C38_CallCompletes == <>(pc = "done" /\ outcome # Pending)

C38_Witness ==
    /\ entry = "listLanguages" /\ pc = "done" /\ stage = "player"
    /\ Retries = 1 /\ spent = 2 /\ calls = 2
    /\ outcome.kind = "value"

(* C39: when the track selected from the list has neither a baseUrl nor a
   url, fetchTranscript fails with NotAvailable carrying the identifier;
   no transcript-document request is made (the call ends in the player
   stage, its last request being the player request) and nothing is
   written to the cache. *)
C39_TrackWithoutUrl ==
    /\ (entry = "fetchTranscript" /\ pc = "done" /\ stage = "player"
        /\ settled = Resolved("json", 0) /\ ClassifyPlayer(playerJson) = ""
        /\ ClaimExpectedTrack(Tracklist(playerJson).tracks.list) # 0
        /\ Tracklist(playerJson).tracks.list[
               ClaimExpectedTrack(Tracklist(playerJson).tracks.list)].url = None)
          => /\ outcome = FailureWith("NotAvailable", WithVideoId(identifier))
             /\ request.params = playerFetchParams
             /\ selected = NoTrack
             /\ \A k \in 1..Len(cacheLog) : cacheLog[k].op # "set"
    /\ (entry = "fetchTranscript" /\ stage = "transcript") => selected.url # None

C39_Witness ==
    /\ entry = "fetchTranscript" /\ pc = "done" /\ stage = "player"
    /\ cfg.cache /\ cacheLog # <<>>
    /\ Tracklist(playerJson).tracks.list = <<Track("en", None)>>
    /\ outcome = FailureWith("NotAvailable", WithVideoId(identifier))

=============================================================================
